---- MODULE Spec2Model ----
(***************************************************************************)
(* RecipeOptimizer: the pipeline of app/backend/pipeline/orchestrator.py   *)
(* (run_pipeline) and the refinement loop of pipeline/evaluator.py         *)
(* (evaluator_loop), as a state machine.                                   *)
(*                                                                         *)
(* One run of run_pipeline is one coroutine.  Its suspension points are    *)
(* the awaits on model calls, on the audit write (log_llm_run) and on the  *)
(* vector store; a step of the model is the code between two suspension    *)
(* points.  What a model call returns, and whether it raises, is chosen    *)
(* nondeterministically from small sets of representative values.          *)
(***************************************************************************)
EXTENDS Integers, Sequences, FiniteSets, TLC

VARIABLES
    max_iter,               \* evaluator.MAX_ITER, read once at import
    stage,                  \* the part of run_pipeline the run is in
    step,                   \* the position inside that part
    error,                  \* the exception that left run_pipeline, or "none"
    calls,                  \* model calls issued so far, per chain
    audit,                  \* the LLMRun rows added by log_llm_run, in order
    parsed_recipe,
    router_result,
    diet_label,
    enr,                    \* the three tasks asyncio.gather runs
    done_order,             \* history: the tasks of Step C in the order they ended
    nutrition_info,
    allergen_info,
    flavor_profile,
    parsed_recipe_enhanced,
    optimized_recipe,
    synthesized_recipe,     \* history: the candidate as Step D's chain returned it
    i,                      \* the loop variable of evaluator_loop
    current_recipe,
    trace,                  \* history: the calls evaluator_loop made, in order
    final_recipe,
    indexed,                \* documents pairs added to the vector store
    vectorstore,            \* the pairs the vector store holds, in order
    session,                \* the transaction of get_db_session
    llm_runs,               \* the LLMRun rows left when the transaction has ended
    callbacks_inline,       \* callback handlers run on the event-loop thread
    total_tokens,           \* _thread_local.total_tokens, per thread
    runs,                   \* the token accounting of concurrent runs, per run
    fn_arg,                 \* the argument a function is called with on its own
    fn_result,              \* what that call returned
    fn_done,                \* whether it has returned
    response,               \* the ProcessResponse returned, or NoResponse
    token_count             \* run_pipeline's token_count: counted or estimated

vars == <<max_iter, stage, step, error, calls, audit, parsed_recipe, router_result,
          token_count,
          diet_label, enr, done_order, nutrition_info, allergen_info, flavor_profile,
          parsed_recipe_enhanced, optimized_recipe, i, current_recipe, trace,
          final_recipe, indexed, vectorstore, session, llm_runs, response,
          callbacks_inline, total_tokens, runs, synthesized_recipe,
          fn_arg, fn_result, fn_done>>

(***************************************************************************)
(* Bounds of the model.                                                    *)
(***************************************************************************)
\* MAX_ITER is read from the environment (evaluator.py:10).  The runs of
\* evaluator_loop on its own take it from 0..MaxIter, the runs of the whole
\* pipeline from 0..MaxIterRun.
MaxIter == 3
MaxIterRun == 1
\* No chain is called more often than this in a run (a cap for the counters).
MaxCalls == 6

(***************************************************************************)
(* JSON values.  A value is abstracted to its kind, the keys it has when   *)
(* it is an object (for a list: the keys of its first element), a tag      *)
(* standing for the rest of its content, and the value under "nutrition".  *)
(***************************************************************************)
\* models.Nutrition: the seven fields, in tenths.  n picks the estimate:
\* Nutr("dict", 2) has sugar_g 24.3 and Nutr("dict", 1) has sugar_g 12.8.
\* absent holds the fields the dict has no key for, nulls the fields it
\* holds null for.
NutritionFields == {"calories", "protein_g", "fat_g", "carbs_g", "sugar_g",
                    "fiber_g", "sodium_mg"}
Nutr(kind, n) ==
    [kind |-> kind,
     calories |-> 15000 + 10000 * n, protein_g |-> 600 - 100 * n,
     fat_g |-> 50 + 30 * n, carbs_g |-> 200 + 100 * n, sugar_g |-> 13 + 115 * n,
     fiber_g |-> 40 - 5 * n, sodium_mg |-> 1000 + 700 * n,
     absent |-> {}, nulls |-> {}]
NoNutr == Nutr("absent", 0)

Val(kind, keys, tag, nutr) == [kind |-> kind, keys |-> keys, tag |-> tag,
                               nutrition |-> nutr]
Unset == Val("unset", {}, "unset", NoNutr)
JsonNull == Val("none", {}, "null", NoNutr)

IsDict(v) == v.kind = "dict"

\* run_pipeline: recipe_content_fields and optimized_recipe_fields
recipe_content_fields == {"title", "ingredients", "steps", "nutrition",
                          "cooking_time", "servings"}
optimized_recipe_fields == recipe_content_fields \cup {"improvements", "diet_label"}
\* models.RecipeContent: the fields without a default
RequiredFields == {"title", "ingredients", "steps"}

(***************************************************************************)
(* What the model calls can return.  Each set holds a well-formed value    *)
(* and the malformed ones the code reacts to.                              *)
(***************************************************************************)
GoodKeys == {"title", "ingredients", "steps", "servings"}

ParseOutputs ==
    { Val("dict", GoodKeys, "muffins", NoNutr),
      Val("dict", {"title", "ingredients"}, "nosteps", NoNutr),
      Val("list_of_dict", GoodKeys, "listed", NoNutr),
      JsonNull }

RouterOutputs ==
    { Val("dict", {"diet_label"}, "vegan", NoNutr),
      Val("dict", {}, "nolabel", NoNutr),
      JsonNull }

SynthOutputs ==
    { Val("dict", GoodKeys \cup {"improvements"}, "synth", NoNutr),
      Val("dict", GoodKeys \cup {"nutrition"}, "synthN", Nutr("dict", 1)),
      Val("dict", {"title"}, "partial", NoNutr),
      JsonNull }

ReviseOutputs ==
    { Val("dict", GoodKeys \cup {"nutrition"}, "rev1",
          [Nutr("dict", 1) EXCEPT !.absent = {"fiber_g"}]),
      Val("dict", GoodKeys \cup {"nutrition"}, "rev3",
          [Nutr("dict", 1) EXCEPT !.nulls = {"sugar_g"}]),
      Val("dict", GoodKeys, "rev2", NoNutr),
      Val("dict", {}, "empty", NoNutr),
      JsonNull }

NutritionOutputs == { Nutr("dict", 2), Nutr("list", 0) }
AllergenOutputs == { Val("dict", {"allergens"}, "dairy", NoNutr), JsonNull }
FlavorOutputs == { Val("dict", {"primary_flavors"}, "sweet", NoNutr) }

\* evaluator.py:114 compares evaluation["score"] with this
PassScore == 8
Scores == {7, 8, 9}
EvalOutputs == { [kind |-> "dict", score |-> s] : s \in Scores }
                 \cup { [kind |-> "noscore", score |-> 0] }

StructuredStages == {"parse", "router", "orchestrator"}
Enrichers == {"nutrition", "allergen", "flavor"}
Chains == StructuredStages \cup Enrichers \cup {"evaluator", "optimizer"}

Outputs(s) == CASE s = "parse" -> ParseOutputs
                [] s = "router" -> RouterOutputs
                [] s = "orchestrator" -> SynthOutputs
                [] s = "nutrition" -> NutritionOutputs
                [] s = "allergen" -> AllergenOutputs
                [] s = "flavor" -> FlavorOutputs

(***************************************************************************)
(* The exceptions a chain raises.  run_pipeline looks at str(e): whether   *)
(* it names a JSON failure, and whether it holds a ```json fence; the text *)
(* inside the fence is `body`.                                             *)
(***************************************************************************)
Garbage == Val("garbage", {}, "garbage", NoNutr)
NoBody == Val("nobody", {}, "nobody", NoNutr)

FencedBodies(s) ==
    CASE s = "parse" ->
            { Val("dict", GoodKeys \cup {"extra"}, "fixed", NoNutr),
              Val("list_of_dict", GoodKeys, "listed", NoNutr), Garbage }
      [] s = "router" ->
            { Val("dict", {"diet_label", "extra"}, "keto", NoNutr),
              Val("dict", {"extra"}, "nolabel", NoNutr), JsonNull, Garbage }
      [] s = "orchestrator" ->
            { Val("dict", GoodKeys \cup {"improvements", "extra"}, "fixed", NoNutr),
              JsonNull, Garbage }

Exc(cls, fence, body) == [cls |-> cls, fence |-> fence, body |-> body]

Exceptions(s) ==
    { Exc("json", TRUE, b) : b \in FencedBodies(s) }
      \cup { Exc("json", FALSE, NoBody), Exc("other", FALSE, NoBody) }

\* orchestrator.py:275: the test on str(e)
IsJsonError(e) == e.cls = "json"
\* orchestrator.py:279: "```json" in raw_output
HasFence(e) == e.fence

\* orchestrator.py:282-304: fix_none_values and the escalating json.loads;
\* a body no substitution makes parseable ends in JSONDecodeError.
LoadsFails(body) == body.kind = "garbage"

filter_extra_fields(json_data, expected_keys) ==
    Val("dict", json_data.keys \cap expected_keys, json_data.tag,
        IF "nutrition" \in expected_keys THEN json_data.nutrition ELSE NoNutr)

\* the default, whatever the dict holds
DietLabelDefault(d) == "balanced"
\* dict.get("diet_label", "balanced")
GetDietLabel(d) == IF "diet_label" \in d.keys THEN d.tag ELSE "balanced"

\* The lines after json.loads in the three handlers (306, 366, 489).  They
\* raise AttributeError on a value that is no dict.
RepairRaises(s, raw_data) == ~IsDict(raw_data)
Repaired(s, raw_data) ==
    CASE s = "parse" -> filter_extra_fields(raw_data, recipe_content_fields)
      [] s = "router" -> Val("dict", {"diet_label"}, GetDietLabel(raw_data), NoNutr)
      [] s = "orchestrator" -> filter_extra_fields(raw_data, optimized_recipe_fields)

(***************************************************************************)
(* Helpers of the actions.                                                 *)
(***************************************************************************)
SetOut(s, v) ==
    /\ parsed_recipe' = IF s = "parse" THEN v ELSE parsed_recipe
    /\ router_result' = IF s = "router" THEN v ELSE router_result
    /\ optimized_recipe' = IF s = "orchestrator" THEN v ELSE optimized_recipe
    /\ synthesized_recipe' = IF s = "orchestrator" THEN v ELSE synthesized_recipe

KeepOut == UNCHANGED <<parsed_recipe, router_result, optimized_recipe, synthesized_recipe>>

\* chain.ainvoke(...): one more model call of chain c
Invoke(c) == calls' = [calls EXCEPT ![c] = @ + 1]

\* a failure of the parse stage is swallowed and the run goes on
RaiseUnlessParse(kind) ==
    /\ stage' = IF stage = "parse" THEN "router" ELSE "failed"
    /\ step' = IF stage = "parse" THEN "call" ELSE "raised"
    /\ error' = kind

\* An exception leaves run_pipeline.
Raise(kind) ==
    /\ stage' = "failed"
    /\ step' = "raised"
    /\ error' = kind

enrichVars == <<enr, done_order, nutrition_info, allergen_info, flavor_profile,
                parsed_recipe_enhanced>>
loopVars == <<i, current_recipe, trace, final_recipe>>
tokenVars == <<callbacks_inline, total_tokens, runs>>
fnVars == <<fn_arg, fn_result, fn_done>>
tailVars == <<indexed, vectorstore, session, llm_runs, response, tokenVars, fnVars>>

(***************************************************************************)
(* Token accounting (token_counter.py).  _thread_local is a                *)
(* threading.local: one total_tokens per thread, shared by every coroutine *)
(* that runs on that thread.  run_pipeline reads and resets it on the      *)
(* event-loop thread (271-272); on_llm_start and on_llm_end write it on    *)
(* the thread the callback manager runs them on, which token_counter.py    *)
(* does not fix: the event-loop thread or an executor thread.              *)
(***************************************************************************)
\* no value: the attribute is not set, the metadata holds no count, no row yet
Missing == 0 - 1
\* the model has not answered yet
Unanswered == 0 - 2

Threads == {"loop", "worker"}
\* two requests served by one event loop
Runs == {"A", "B"}
\* the chains of Steps A and B, called with a LangchainTokenCounter
CountedStages == {"parse", "router"}
TokenChains == CountedStages \cup Enrichers

RunNo(r) == IF r = "A" THEN 1 ELSE 2
CallNo(c) == CASE c = "parse" -> 1
               [] c = "router" -> 2
               [] c = "nutrition" -> 3
               [] c = "allergen" -> 4
               [] c = "flavor" -> 5
\* total_tokens in the usage metadata of the response to call c of run r
UsageOf(r, c) == 100 * RunNo(r) + 10 * CallNo(c)
\* line 395: token_estimate = len(recipe_json) // 4
RecipeJsonLen(r) == 40 * RunNo(r) + 2
token_estimate(r) == RecipeJsonLen(r) \div 4

NewRun == [stage |-> "parse", step |-> "call",
           exposed |-> [s \in CountedStages |-> Unanswered],
           token_count |-> Missing,
           rows |-> [c \in TokenChains |-> Missing],
           tasks |-> [t \in Enrichers |-> "new"]]

\* no function is being called on its own
FnIdle ==
    /\ fn_arg = 0
    /\ fn_result = 0
    /\ fn_done = FALSE

TokenIdle ==
    /\ total_tokens = [th \in Threads |-> Missing]
    /\ runs = [r \in Runs |-> NewRun]

(***************************************************************************)
(* The state when run_pipeline is entered.                                 *)
(***************************************************************************)
NoResponse == [original |-> Unset, optimized |-> Unset, diet_label |-> "unset",
               macros_delta |-> [f \in NutritionFields |-> 0]]
UnsetNutr == Nutr("unset", 0)

Init ==
    /\ max_iter \in 0..MaxIterRun
    /\ stage = "start"
    /\ step = "store"
    /\ error = "none"
    /\ calls = [c \in Chains |-> 0]
    /\ audit = <<>>
    /\ token_count = "unset"
    /\ parsed_recipe = Unset
    /\ router_result = Unset
    /\ diet_label = "unset"
    /\ enr = [t \in Enrichers |-> [st |-> "new", out |-> Unset]]
    /\ done_order = <<>>
    /\ nutrition_info = UnsetNutr
    /\ allergen_info = Unset
    /\ flavor_profile = Unset
    /\ parsed_recipe_enhanced = Unset
    /\ optimized_recipe = Unset
    /\ synthesized_recipe = Unset
    /\ i = 0
    /\ current_recipe = Unset
    /\ trace = <<>>
    /\ final_recipe = Unset
    /\ indexed = 0
    /\ vectorstore = <<>>
    /\ session = "open"
    /\ llm_runs = <<>>
    /\ response = NoResponse
    /\ callbacks_inline = FALSE
    /\ TokenIdle
    /\ FnIdle

(***************************************************************************)
(* run_pipeline, lines 258-262: the raw recipe is stored, then Step A      *)
(* begins.                                                                 *)
(***************************************************************************)
StoreRaw ==
    /\ stage = "start"
    /\ stage' = "parse"
    /\ step' = "call"
    /\ UNCHANGED <<max_iter, error, calls, audit, token_count, diet_label>>
    /\ KeepOut
    /\ UNCHANGED <<enrichVars, loopVars, tailVars>>

(***************************************************************************)
(* Steps A, B and D: parse (264-316), router (322-385) and orchestrator    *)
(* (450-499) are three copies of one try/except; s is the chain.           *)
(***************************************************************************)
\* the chain call inside `try`
InitialCall(s) ==
    /\ stage = s
    /\ step = "call"
    /\ calls[s] < MaxCalls
    /\ Invoke(s)
    /\ step' = "await"
    /\ UNCHANGED <<max_iter, stage, error, audit, token_count, diet_label>>
    /\ KeepOut
    /\ UNCHANGED <<enrichVars, loopVars, tailVars>>

\* it returns: token_count = get_token_count() or 0
InitialReturns(s, v) ==
    /\ stage = s
    /\ step = "await"
    /\ SetOut(s, v)
    /\ token_count' = "counted"
    /\ step' = "log"
    /\ UNCHANGED <<max_iter, stage, error, calls, audit, diet_label>>
    /\ UNCHANGED <<enrichVars, loopVars, tailVars>>

\* The handler's way through `except Exception as e` up to its next await:
\*   "repaired"  the fenced text was parsed and shaped, no further call
\*   "fallback"  a JSON error without a fence: the call of line 309
\*   "inner"     the repair raised: the call of line 312
\*   "plain"     another exception: the call of line 315
HandlerPath(s, e) ==
    IF IsJsonError(e)
    THEN IF HasFence(e)
         THEN IF LoadsFails(e.body) \/ RepairRaises(s, e.body)
              THEN "inner"
              ELSE "repaired"
         ELSE "fallback"
    ELSE "plain"

\* it raises e, and the handler runs
InitialRaises(s, e) ==
    /\ stage = s
    /\ step = "await"
    /\ calls[s] < MaxCalls
    /\ IF HandlerPath(s, e) = "repaired"
       THEN /\ SetOut(s, Repaired(s, e.body))
            /\ token_count' = "estimated"
            /\ step' = "log"
            /\ UNCHANGED calls
       ELSE /\ Invoke(s)
            /\ step' = "await_" \o HandlerPath(s, e)
            /\ KeepOut
            /\ UNCHANGED token_count
    /\ UNCHANGED <<max_iter, stage, error, audit, diet_label>>
    /\ UNCHANGED <<enrichVars, loopVars, tailVars>>

RetrySteps == {"await_fallback", "await_inner", "await_plain"}

\* a call made by the handler returns: line 316, 385 or 499 estimates the tokens
RetryReturns(s, v) ==
    /\ stage = s
    /\ step \in RetrySteps
    /\ SetOut(s, v)
    /\ token_count' = "estimated"
    /\ step' = "log"
    /\ UNCHANGED <<max_iter, stage, error, calls, audit, diet_label>>
    /\ UNCHANGED <<enrichVars, loopVars, tailVars>>

\* The call of line 309 stands inside the inner `try`, so its exception is
\* caught by `except Exception as inner_e` and line 312 calls the chain again.
CaughtByInner(st) == st = "await_fallback"

\* a call made by the handler raises
RetryRaises(s) ==
    /\ stage = s
    /\ step \in RetrySteps
    /\ calls[s] < MaxCalls
    /\ IF CaughtByInner(step)
       THEN /\ Invoke(s)
            /\ step' = "await_inner"
            /\ UNCHANGED <<stage, error>>
       ELSE /\ Raise(s)
            /\ UNCHANGED calls
    /\ UNCHANGED <<max_iter, audit, token_count, diet_label>>
    /\ KeepOut
    /\ UNCHANGED <<enrichVars, loopVars, tailVars>>

(***************************************************************************)
(* log_llm_run (161-180): one LLMRun row is added and flushed.             *)
(***************************************************************************)
LLMRun(step_name, tokens_used) == [step_name |-> step_name, tokens_used |-> tokens_used]

\* the row is put in front of the rows already there
LogPrepends(step_name, tokens_used) ==
    audit' = <<LLMRun(step_name, tokens_used)>> \o audit
log_llm_run(step_name, tokens_used) ==
    audit' = Append(audit, LLMRun(step_name, tokens_used))

\* lines 318-319, then Step B begins
LogParse ==
    /\ stage = "parse"
    /\ step = "log"
    /\ log_llm_run("parse", token_count)
    /\ stage' = "router"
    /\ step' = "call"
    /\ UNCHANGED <<max_iter, error, calls, token_count, diet_label>>
    /\ KeepOut
    /\ UNCHANGED <<enrichVars, loopVars, tailVars>>

\* lines 387-399: the router row, diet_label, and the three coroutines
LogRouter ==
    /\ stage = "router"
    /\ step = "log"
    /\ log_llm_run("router", token_count)
    /\ IF IsDict(router_result)
       THEN /\ diet_label' = GetDietLabel(router_result)
            /\ stage' = "enrich"
            /\ step' = "dispatch"
            /\ UNCHANGED error
       ELSE /\ Raise("AttributeError")
            /\ UNCHANGED diet_label
    /\ UNCHANGED <<max_iter, calls, token_count>>
    /\ KeepOut
    /\ UNCHANGED <<enrichVars, loopVars, tailVars>>

(***************************************************************************)
(* Step C (392-411): the enrichment fan-out.  asyncio.gather wraps the     *)
(* three coroutines in tasks; all three take their first step, the model   *)
(* call, in the loop iteration that follows, before any response can be    *)
(* handled.  Without return_exceptions the first exception is raised to    *)
(* the awaiter at once and the other tasks are left running.               *)
(***************************************************************************)
\* `await a` first, the other two afterwards: one task starts
DispatchSequential == {"nutrition"}

\* the tasks that have started when the await of line 402 first suspends
DispatchedAtGather == Enrichers

EnrichDispatch ==
    /\ stage = "enrich"
    /\ step = "dispatch"
    /\ calls' = [c \in Chains |-> IF c \in DispatchedAtGather THEN calls[c] + 1 ELSE calls[c]]
    /\ enr' = [t \in Enrichers |-> IF t \in DispatchedAtGather
                                    THEN [st |-> "inflight", out |-> Unset]
                                    ELSE enr[t]]
    /\ step' = "gather"
    /\ UNCHANGED done_order
    /\ UNCHANGED <<max_iter, stage, error, audit, token_count, diet_label>>
    /\ KeepOut
    /\ UNCHANGED <<nutrition_info, allergen_info, flavor_profile, parsed_recipe_enhanced>>
    /\ UNCHANGED <<loopVars, tailVars>>

\* the call of task t returns v; the run itself is not resumed by this
EnrichReturns(t, v) ==
    /\ enr[t].st = "inflight"
    /\ enr' = [enr EXCEPT ![t] = [st |-> "done", out |-> v]]
    /\ done_order' = Append(done_order, t)
    /\ UNCHANGED <<max_iter, stage, step, error, calls, audit, token_count, diet_label>>
    /\ KeepOut
    /\ UNCHANGED <<nutrition_info, allergen_info, flavor_profile, parsed_recipe_enhanced>>
    /\ UNCHANGED <<loopVars, tailVars>>

\* the call of task t raises
EnrichRaises(t) ==
    /\ enr[t].st = "inflight"
    /\ enr' = [enr EXCEPT ![t] = [st |-> "failed", out |-> Unset]]
    /\ done_order' = Append(done_order, t)
    /\ UNCHANGED <<max_iter, stage, step, error, calls, audit, token_count, diet_label>>
    /\ KeepOut
    /\ UNCHANGED <<nutrition_info, allergen_info, flavor_profile, parsed_recipe_enhanced>>
    /\ UNCHANGED <<loopVars, tailVars>>

\* return_exceptions=True: the await ends when every task has ended, and
\* an exception is one of the values returned
GatherCollectsExceptions(tasks) ==
    IF \A t \in Enrichers : tasks[t].st \in {"done", "failed"} THEN "return" ELSE "wait"

\* asyncio.wait(..., return_when=FIRST_COMPLETED): the await ends with the
\* first task that ends
GatherFirstCompleted(tasks) ==
    IF \E t \in Enrichers : tasks[t].st = "failed" THEN "raise"
    ELSE IF \E t \in Enrichers : tasks[t].st = "done" THEN "return"
    ELSE "wait"

\* asyncio.gather(...) as line 402 calls it: the first failed task fails the
\* await; otherwise it ends when all three are done
GatherOutcome(tasks) ==
    IF \E t \in Enrichers : tasks[t].st = "failed" THEN "raise"
    ELSE IF \A t \in Enrichers : tasks[t].st = "done" THEN "return"
    ELSE "wait"

\* line 402 raises: nothing handles it inside run_pipeline
GatherRaises ==
    /\ stage = "enrich"
    /\ step = "gather"
    /\ GatherOutcome(enr) = "raise"
    /\ Raise("enrich")
    /\ UNCHANGED <<max_iter, calls, audit, token_count, diet_label>>
    /\ KeepOut
    /\ UNCHANGED <<enrichVars, loopVars, tailVars>>

\* the arguments of asyncio.gather, lines 402-404
GatherArguments == <<"nutrition", "allergen", "flavor">>

\* asyncio.as_completed: the k-th result is that of the k-th task to end
GatherByCompletion(tasks, order, k) == tasks[order[k]].out

\* the k-th element of the list gather returns is the result of its k-th
\* argument, whatever the order in which the tasks ended
GatherResult(tasks, order, k) == tasks[GatherArguments[k]].out

\* line 402 returns the three results and unpacks them
GatherReturns ==
    /\ stage = "enrich"
    /\ step = "gather"
    /\ GatherOutcome(enr) = "return"
    /\ nutrition_info' = GatherResult(enr, done_order, 1)
    /\ allergen_info' = GatherResult(enr, done_order, 2)
    /\ flavor_profile' = GatherResult(enr, done_order, 3)
    /\ step' = "log_nutrition"
    /\ UNCHANGED <<max_iter, stage, error, calls, audit, token_count, diet_label>>
    /\ KeepOut
    /\ UNCHANGED <<enr, done_order, parsed_recipe_enhanced>>
    /\ UNCHANGED <<loopVars, tailVars>>

\* a list is treated as any other value that is no dict
EnhanceDictOnly(parsed, nutrition) ==
    IF IsDict(parsed)
    THEN Val("dict", parsed.keys \cup {"nutrition"}, parsed.tag, nutrition)
    ELSE Val("dict", {"title", "ingredients", "steps", "nutrition"},
             "Parsed Recipe", nutrition)

\* lines 417-432: parsed_recipe_enhanced
Enhance(parsed, nutrition) ==
    IF IsDict(parsed) \/ parsed.kind = "list_of_dict"
    THEN Val("dict", parsed.keys \cup {"nutrition"}, parsed.tag, nutrition)
    ELSE Val("dict", {"title", "ingredients", "steps", "nutrition"},
             "Parsed Recipe", nutrition)

\* lines 409 and 410: the nutrition row, then the allergen row
LogEnricher(t) ==
    /\ stage = "enrich"
    /\ step = "log_" \o t
    /\ t \in {"nutrition", "allergen"}
    /\ log_llm_run(t, "estimated")
    /\ step' = IF t = "nutrition" THEN "log_allergen" ELSE "log_flavor"
    /\ UNCHANGED <<max_iter, stage, error, calls, token_count, diet_label>>
    /\ KeepOut
    /\ UNCHANGED <<enrichVars, loopVars, tailVars>>

\* lines 411-448: the flavor row, parsed_recipe_enhanced, and Step D begins
LogFlavor ==
    /\ stage = "enrich"
    /\ step = "log_flavor"
    /\ log_llm_run("flavor", "estimated")
    /\ parsed_recipe_enhanced' = Enhance(parsed_recipe, nutrition_info)
    /\ done_order' = <<>>
    /\ stage' = "orchestrator"
    /\ step' = "call"
    /\ UNCHANGED <<max_iter, error, calls, token_count, diet_label>>
    /\ KeepOut
    /\ UNCHANGED <<enr, nutrition_info, allergen_info, flavor_profile>>
    /\ UNCHANGED <<loopVars, tailVars>>

\* the candidate is left as Step D returned it
AttachSkipped(optimized, nutrition) == optimized

\* lines 504-506: nutrition is added to a candidate that has none
AttachNutrition(optimized, nutrition) ==
    IF "nutrition" \in optimized.keys
    THEN optimized
    ELSE Val("dict", optimized.keys \cup {"nutrition"}, optimized.tag, nutrition)

\* lines 501-517: the orchestrator row, the nutrition of the candidate, and
\* evaluator_loop is entered (line 103 of evaluator.py).  A candidate that is
\* no dict makes line 505 or 506 raise TypeError.
LogOrchestrator ==
    /\ stage = "orchestrator"
    /\ step = "log"
    /\ log_llm_run("orchestrator", token_count)
    /\ IF IsDict(optimized_recipe)
       THEN /\ optimized_recipe' = AttachNutrition(optimized_recipe, nutrition_info)
            /\ current_recipe' = optimized_recipe'
            /\ i' = 0
            /\ stage' = "evaluator"
            /\ step' = "loop"
            /\ UNCHANGED error
       ELSE /\ Raise("TypeError")
            /\ UNCHANGED <<optimized_recipe, current_recipe, i>>
    /\ UNCHANGED <<max_iter, calls, token_count, diet_label>>
    /\ UNCHANGED <<parsed_recipe, router_result, synthesized_recipe>>
    /\ UNCHANGED <<enrichVars, trace, final_recipe, tailVars>>

(***************************************************************************)
(* evaluator_loop (evaluator.py 89-127).                                   *)
(***************************************************************************)
\* history only: one entry per call the loop issues, completed on its return
Pending == 0 - 1
Call(name, arg) == [call |-> name, arg |-> arg, score |-> Pending, out |-> Unset]
Issued(entry) == trace' = Append(trace, entry)
Returned(score, out) ==
    trace' = [trace EXCEPT ![Len(trace)] = [@ EXCEPT !.score = score, !.out = out]]

\* range(MAX_ITER + 1)
LoopOffByOne(idx, n) == idx <= n
\* a loop that tests its bound only after the first iteration
LoopAtLeastOnce(idx, n) == idx = 0 \/ idx < n
\* while True
LoopUnbounded(idx, n) == TRUE

\* line 105: for i in range(MAX_ITER)
LoopContinues(idx, n) == idx < n

\* evaluation["score"] > 8
PassesStrictly(evaluation) == evaluation.score > PassScore

\* line 114: evaluation["score"] >= 8
PassesEvaluation(evaluation) == evaluation.score >= PassScore

\* return optimized_recipe
LoopResultInitial(current, initial) == initial

\* lines 115 and 127: return current_recipe
LoopResult(current, initial) == current

\* the result of the optimizer call is not assigned
RevisionDropped(current, out) == current

\* line 118: current_recipe = await optimizer_chain.ainvoke(...)
Revised(current, out) == out

\* line 105 with an iteration left: the evaluator call of line 107
LoopIterate ==
    /\ stage = "evaluator"
    /\ step = "loop"
    /\ LoopContinues(i, max_iter)
    /\ calls["evaluator"] < MaxCalls
    /\ Invoke("evaluator")
    /\ Issued(Call("evaluator", current_recipe))
    /\ step' = "await_eval"
    /\ UNCHANGED <<max_iter, stage, error, audit, token_count, diet_label>>
    /\ KeepOut
    /\ UNCHANGED <<enrichVars, i, current_recipe, final_recipe, tailVars>>

\* line 105 with the range exhausted: line 127
LoopExhausted ==
    /\ stage = "evaluator"
    /\ step = "loop"
    /\ ~LoopContinues(i, max_iter)
    /\ final_recipe' = LoopResult(current_recipe, optimized_recipe)
    /\ step' = "log"
    /\ UNCHANGED <<max_iter, stage, error, calls, audit, token_count, diet_label>>
    /\ KeepOut
    /\ UNCHANGED <<enrichVars, i, current_recipe, trace, tailVars>>

\* The evaluator call returns.  A value without a usable "score" makes line
\* 114 raise; a passing score returns the current recipe (115); any other
\* score issues the optimizer call (118).
EvalReturns(evaluation) ==
    /\ stage = "evaluator"
    /\ step = "await_eval"
    /\ calls["optimizer"] < MaxCalls
    /\ IF evaluation.kind # "dict"
       THEN /\ Raise("KeyError")
            /\ UNCHANGED <<calls, trace, final_recipe>>
       ELSE IF PassesEvaluation(evaluation)
       THEN /\ Returned(evaluation.score, Unset)
            /\ final_recipe' = LoopResult(current_recipe, optimized_recipe)
            /\ step' = "log"
            /\ UNCHANGED <<stage, error, calls>>
       ELSE /\ Invoke("optimizer")
            /\ trace' = Append([trace EXCEPT ![Len(trace)].score = evaluation.score],
                               Call("optimizer", current_recipe))
            /\ step' = "await_revise"
            /\ UNCHANGED <<stage, error, final_recipe>>
    /\ UNCHANGED <<max_iter, audit, token_count, diet_label>>
    /\ KeepOut
    /\ UNCHANGED <<enrichVars, i, current_recipe, tailVars>>

\* the evaluator call raises: evaluator_loop handles nothing
EvalRaises ==
    /\ stage = "evaluator"
    /\ step = "await_eval"
    /\ Raise("evaluator")
    /\ UNCHANGED <<max_iter, calls, audit, token_count, diet_label>>
    /\ KeepOut
    /\ UNCHANGED <<enrichVars, loopVars, tailVars>>

\* the optimizer call returns the next current_recipe; the loop goes on
ReviseReturns(v) ==
    /\ stage = "evaluator"
    /\ step = "await_revise"
    /\ current_recipe' = Revised(current_recipe, v)
    /\ Returned(Pending, v)
    /\ i' = i + 1
    /\ step' = "loop"
    /\ UNCHANGED <<max_iter, stage, error, calls, audit, token_count, diet_label>>
    /\ KeepOut
    /\ UNCHANGED <<enrichVars, final_recipe, tailVars>>

\* the optimizer call raises
ReviseRaises ==
    /\ stage = "evaluator"
    /\ step = "await_revise"
    /\ Raise("optimizer")
    /\ UNCHANGED <<max_iter, calls, audit, token_count, diet_label>>
    /\ KeepOut
    /\ UNCHANGED <<enrichVars, loopVars, tailVars>>

(***************************************************************************)
(* run_pipeline after the loop (518-586).                                  *)
(***************************************************************************)
\* lines 518-519: one row for the whole loop
LogEvaluator ==
    /\ stage = "evaluator"
    /\ step = "log"
    /\ log_llm_run("evaluator", "estimated")
    /\ stage' = "index"
    /\ step' = "call"
    /\ UNCHANGED <<max_iter, error, calls, token_count, diet_label>>
    /\ KeepOut
    /\ UNCHANGED <<enrichVars, loopVars, tailVars>>

\* store_in_vectordb (206-236) reads optimized_recipe.get(...): a final
\* recipe that is no dict raises AttributeError
IndexCanStore(optimized) == IsDict(optimized)

\* the candidate Step D produced is indexed instead
IndexesSynthesized(synthesized, refined) == synthesized

\* the second argument of line 522 is final_recipe, what evaluator_loop returned
IndexArgument(synthesized, refined) == refined

\* lines 210-235: the two documents added for one call
Documents(original_recipe, optimized) ==
    [original |-> original_recipe, optimized |-> optimized]

\* nothing is stored before the artifacts are validated
IndexDeferred ==
    /\ stage = "index"
    /\ stage' = "finish"
    /\ step' = "normalize"
    /\ UNCHANGED <<max_iter, error, calls, audit, token_count, diet_label>>
    /\ KeepOut
    /\ UNCHANGED <<enrichVars, loopVars, tailVars>>

\* line 522: the pair is added to the vector store
IndexReturns ==
    /\ stage = "index"
    /\ IndexCanStore(IndexArgument(optimized_recipe, final_recipe))
    /\ indexed' = indexed + 1
    /\ vectorstore' = Append(vectorstore,
                             Documents(parsed_recipe_enhanced,
                                       IndexArgument(optimized_recipe, final_recipe)))
    /\ stage' = "finish"
    /\ step' = "normalize"
    /\ UNCHANGED <<max_iter, error, calls, audit, token_count, diet_label>>
    /\ KeepOut
    /\ UNCHANGED <<enrichVars, loopVars, session, llm_runs, response, tokenVars, fnVars>>

\* line 522 raises (the AttributeError, or the store or its embeddings fail):
\* the call stands in no try block
IndexRaises ==
    /\ stage = "index"
    /\ Raise("index")
    /\ UNCHANGED <<max_iter, calls, audit, token_count, diet_label>>
    /\ KeepOut
    /\ UNCHANGED <<enrichVars, loopVars, tailVars>>

\* `not recipe_data`: None and the empty dict are falsy
Falsy(v) == v.kind = "none" \/ (IsDict(v) /\ v.keys = {})

\* normalize_recipe (525-566): returned as it is without "ingredients",
\* otherwise copied and cut to the allowed fields
normalize_recipe(recipe_data) ==
    IF Falsy(recipe_data) \/ "ingredients" \notin recipe_data.keys
    THEN recipe_data
    ELSE Val("dict", recipe_data.keys \cap optimized_recipe_fields,
             recipe_data.tag, recipe_data.nutrition)

\* `not orig_nutrition`: a missing key reads as {}, which is falsy
NutrFalsy(n) == n.kind \in {"absent", "empty", "none"}

\* calculate_macro_delta (183-203) calls .get on both values once neither is falsy
MacroDeltaRaises(original, optimized) ==
    /\ ~NutrFalsy(original.nutrition)
    /\ ~NutrFalsy(optimized.nutrition)
    /\ (original.nutrition.kind # "dict" \/ optimized.nutrition.kind # "dict")

\* a field that is null makes the subtraction raise TypeError (194-200)
MacroDeltaTypeError(original, optimized) ==
    /\ ~NutrFalsy(original.nutrition)
    /\ ~NutrFalsy(optimized.nutrition)
    /\ original.nutrition.nulls \cup optimized.nutrition.nulls # {}

\* models.MacroDelta(): every field 0
MacroDelta == [f \in NutritionFields |-> 0]
\* nutrition.get(field, 0)
NutrGet(nutr, field) == IF field \in nutr.absent THEN 0 ELSE nutr[field]

\* the operands exchanged
MacroDeltaReversed(original, optimized) ==
    IF NutrFalsy(original.nutrition) \/ NutrFalsy(optimized.nutrition)
    THEN MacroDelta
    ELSE [f \in NutritionFields |->
             NutrGet(original.nutrition, f) - NutrGet(optimized.nutrition, f)]
calculate_macro_delta(original, optimized) ==
    IF NutrFalsy(original.nutrition) \/ NutrFalsy(optimized.nutrition)
    THEN MacroDelta
    ELSE [f \in NutritionFields |->
             NutrGet(optimized.nutrition, f) - NutrGet(original.nutrition, f)]

\* a model built without validation of its fields
ValidationSkipped(d) == ~IsDict(d)

\* models.RecipeContent / OptimizedRecipe: pydantic raises ValidationError on
\* a missing required field or a nutrition that is no object
ValidationFails(d) ==
    \/ ~IsDict(d)
    \/ ~(RequiredFields \subseteq d.keys)
    \/ d.nutrition.kind \notin {"absent", "none", "empty", "dict"}

RecipeContent(d) ==
    Val("dict", d.keys \cap recipe_content_fields, d.tag, d.nutrition)
OptimizedRecipe(d) ==
    Val("dict", d.keys \cap (recipe_content_fields \cup {"improvements"}),
        d.tag, d.nutrition)

\* what lines 569-584 raise, if anything
FinishError ==
    IF MacroDeltaRaises(parsed_recipe_enhanced, final_recipe) THEN "AttributeError"
    ELSE IF MacroDeltaTypeError(parsed_recipe_enhanced, final_recipe) THEN "TypeError"
    ELSE IF ValidationFails(normalize_recipe(parsed_recipe_enhanced)) THEN "ValidationError"
    ELSE IF ValidationFails(normalize_recipe(final_recipe)) THEN "ValidationError"
    ELSE IF ~IsDict(allergen_info) THEN "AttributeError"
    ELSE "none"

ProcessResponse ==
    [original |-> RecipeContent(normalize_recipe(parsed_recipe_enhanced)),
     optimized |-> OptimizedRecipe(normalize_recipe(final_recipe)),
     diet_label |-> diet_label,
     macros_delta |-> calculate_macro_delta(parsed_recipe_enhanced, final_recipe)]

\* lines 568-586 succeed: the response is returned
Return ==
    /\ stage = "finish"
    /\ FinishError = "none"
    /\ response' = ProcessResponse
    /\ stage' = "returned"
    /\ step' = "done"
    /\ UNCHANGED <<max_iter, error, calls, audit, token_count, diet_label>>
    /\ KeepOut
    /\ UNCHANGED <<enrichVars, loopVars, indexed, vectorstore, session, llm_runs, tokenVars, fnVars>>

\* lines 568-586 raise
FinishRaises ==
    /\ stage = "finish"
    /\ FinishError # "none"
    /\ Raise(FinishError)
    /\ UNCHANGED <<max_iter, calls, audit, token_count, diet_label>>
    /\ KeepOut
    /\ UNCHANGED <<enrichVars, loopVars, tailVars>>

\* the flush of log_llm_run (180) or of line 261 raises
LogSteps == {"store", "log", "log_nutrition", "log_allergen", "log_flavor"}
FlushRaises ==
    /\ step \in LogSteps
    /\ Raise("db")
    /\ UNCHANGED <<max_iter, calls, audit, token_count, diet_label>>
    /\ KeepOut
    /\ UNCHANGED <<enrichVars, loopVars, tailVars>>

(***************************************************************************)
(* The request around run_pipeline: main.process_recipe (74-102) awaits it *)
(* with the session of db.get_db_session (32-40).  log_llm_run only        *)
(* flushes; the rows become durable when the generator is resumed after    *)
(* the handler and commits.  When run_pipeline raises, process_recipe      *)
(* raises HTTPException, which reaches the generator at its yield: the     *)
(* `except Exception` branch rolls the transaction back.                   *)
(***************************************************************************)
sessionFrame ==
    <<max_iter, stage, step, error, calls, audit, token_count, diet_label,
      parsed_recipe, router_result, optimized_recipe, synthesized_recipe,
      enrichVars, loopVars, indexed, vectorstore, response, tokenVars, fnVars>>

\* db.py line 37 after a run that returned
CommitSession ==
    /\ stage = "returned"
    /\ session = "open"
    /\ session' = "committed"
    /\ llm_runs' = audit
    /\ UNCHANGED sessionFrame

\* db.py line 37 raises: lines 38-40 roll back
CommitRaises ==
    /\ stage = "returned"
    /\ session = "open"
    /\ session' = "rolled_back"
    /\ llm_runs' = <<>>
    /\ UNCHANGED sessionFrame

\* main.py 97-102 and db.py 38-40 after a run that raised
RollbackSession ==
    /\ stage = "failed"
    /\ session = "open"
    /\ session' = "rolled_back"
    /\ llm_runs' = <<>>
    /\ UNCHANGED sessionFrame

(***************************************************************************)
(* The specification.                                                      *)
(***************************************************************************)
Next ==
    \/ StoreRaw
    \/ \E s \in StructuredStages : InitialCall(s)
    \/ \E s \in StructuredStages : \E v \in Outputs(s) : InitialReturns(s, v)
    \/ \E s \in StructuredStages : \E e \in Exceptions(s) : InitialRaises(s, e)
    \/ \E s \in StructuredStages : \E v \in Outputs(s) : RetryReturns(s, v)
    \/ \E s \in StructuredStages : RetryRaises(s)
    \/ LogParse
    \/ LogRouter
    \/ EnrichDispatch
    \/ \E t \in Enrichers : \E v \in Outputs(t) : EnrichReturns(t, v)
    \/ \E t \in Enrichers : EnrichRaises(t)
    \/ GatherRaises
    \/ GatherReturns
    \/ \E t \in Enrichers : LogEnricher(t)
    \/ LogFlavor
    \/ LogOrchestrator
    \/ LoopIterate
    \/ LoopExhausted
    \/ \E ev \in EvalOutputs : EvalReturns(ev)
    \/ EvalRaises
    \/ \E v \in ReviseOutputs : ReviseReturns(v)
    \/ ReviseRaises
    \/ LogEvaluator
    \/ IndexReturns
    \/ IndexRaises
    \/ Return
    \/ FinishRaises
    \/ FlushRaises
    \/ CommitSession
    \/ CommitRaises
    \/ RollbackSession

Spec == Init /\ [][Next]_vars

(***************************************************************************)
(* The caller abandons the run: the task that runs run_pipeline is         *)
(* cancelled while it is suspended on a model call.  asyncio raises        *)
(* CancelledError at the await; it is a BaseException, so none of the      *)
(* `except Exception` handlers (273, 310, 333, 373, 456, 493) catches it   *)
(* and it leaves run_pipeline.  A cancelled gather cancels its tasks.      *)
(***************************************************************************)
\* CancelledError taken for an Exception: the handler of the stage catches it
\* and calls the chain again (line 315)
CancelCaught ==
    /\ stage \in StructuredStages
    /\ step = "await"
    /\ calls[stage] < MaxCalls
    /\ Invoke(stage)
    /\ step' = "await_plain"
    /\ error' = "CancelledError"
    /\ UNCHANGED <<max_iter, stage, audit, token_count, diet_label>>
    /\ KeepOut
    /\ UNCHANGED <<enrichVars, loopVars, tailVars>>

Cancel ==
    /\ \/ stage \in StructuredStages /\ step \in {"await"} \cup RetrySteps
       \/ stage = "enrich" /\ step = "gather"
       \/ stage = "evaluator" /\ step \in {"await_eval", "await_revise"}
    /\ stage' = "cancelled"
    /\ step' = "raised"
    /\ error' = "CancelledError"
    /\ enr' = [t \in Enrichers |-> IF enr[t].st = "inflight"
                                    THEN [st |-> "cancelled", out |-> Unset]
                                    ELSE enr[t]]
    /\ UNCHANGED <<max_iter, calls, audit, token_count, diet_label>>
    /\ KeepOut
    /\ UNCHANGED <<done_order, nutrition_info, allergen_info, flavor_profile,
                   parsed_recipe_enhanced>>
    /\ UNCHANGED <<loopVars, tailVars>>

\* run_pipeline with cancellation of the task that runs it
CancelNext == Next \/ Cancel

CancelSpec == Init /\ [][CancelNext]_vars

(***************************************************************************)
(* evaluator_loop on its own: called with an original and a candidate, as  *)
(* line 517 calls it, for every MAX_ITER of 0..MaxIter.                    *)
(***************************************************************************)
LoopOriginals == { Enhance(p, Nutr("dict", 2)) : p \in {Val("dict", GoodKeys, "muffins", NoNutr)} }
LoopCandidates ==
    { AttachNutrition(c, Nutr("dict", 2)) : c \in {v \in SynthOutputs : IsDict(v)} }

LoopInit ==
    /\ max_iter \in 0..MaxIter
    /\ stage = "evaluator"
    /\ step = "loop"
    /\ error = "none"
    /\ calls = [c \in Chains |-> 0]
    /\ audit = <<>>
    /\ token_count = "unset"
    /\ parsed_recipe = Unset
    /\ router_result = Unset
    /\ diet_label = "unset"
    /\ enr = [t \in Enrichers |-> [st |-> "new", out |-> Unset]]
    /\ done_order = <<>>
    /\ nutrition_info = UnsetNutr
    /\ allergen_info = Unset
    /\ flavor_profile = Unset
    /\ parsed_recipe_enhanced \in LoopOriginals
    /\ optimized_recipe \in LoopCandidates
    /\ synthesized_recipe = Unset
    /\ i = 0
    /\ current_recipe = optimized_recipe
    /\ trace = <<>>
    /\ final_recipe = Unset
    /\ indexed = 0
    /\ vectorstore = <<>>
    /\ session = "open"
    /\ llm_runs = <<>>
    /\ response = NoResponse
    /\ callbacks_inline = FALSE
    /\ TokenIdle
    /\ FnIdle

LoopNext ==
    \/ LoopIterate
    \/ LoopExhausted
    \/ \E ev \in EvalOutputs : EvalReturns(ev)
    \/ EvalRaises
    \/ \E v \in ReviseOutputs : ReviseReturns(v)
    \/ ReviseRaises

LoopSpec == LoopInit /\ [][LoopNext]_vars

\* Every call that is awaited returns or raises, and the event loop then
\* resumes the coroutine.
LoopFairSpec == LoopSpec /\ WF_vars(LoopNext)

(***************************************************************************)
(* run_pipeline from line 501 on: Step D has returned a dict, and the      *)
(* nutrition chain has returned an object, an empty object or null.        *)
(***************************************************************************)
AttachInit ==
    /\ max_iter \in {0, 1}
    /\ stage = "orchestrator"
    /\ step = "log"
    /\ error = "none"
    /\ calls = [c \in Chains |-> IF c \in {"evaluator", "optimizer"} THEN 0 ELSE 1]
    /\ audit = <<LLMRun("parse", "counted"), LLMRun("router", "counted"),
                 LLMRun("nutrition", "estimated"), LLMRun("allergen", "estimated"),
                 LLMRun("flavor", "estimated")>>
    /\ token_count = "counted"
    /\ parsed_recipe = Val("dict", GoodKeys, "muffins", NoNutr)
    /\ router_result = Val("dict", {"diet_label"}, "vegan", NoNutr)
    /\ diet_label = GetDietLabel(router_result)
    /\ nutrition_info \in {Nutr("dict", 2), Nutr("empty", 0), Nutr("none", 0)}
    /\ allergen_info = Val("dict", {"allergens"}, "dairy", NoNutr)
    /\ flavor_profile = Val("dict", {"primary_flavors"}, "sweet", NoNutr)
    /\ enr = [t \in Enrichers |->
                 [st |-> "done",
                  out |-> CASE t = "nutrition" -> nutrition_info
                            [] t = "allergen" -> allergen_info
                            [] t = "flavor" -> flavor_profile]]
    /\ done_order = <<>>
    /\ parsed_recipe_enhanced = Enhance(parsed_recipe, nutrition_info)
    /\ optimized_recipe \in {v \in SynthOutputs : IsDict(v)}
    /\ synthesized_recipe = optimized_recipe
    /\ i = 0
    /\ current_recipe = Unset
    /\ trace = <<>>
    /\ final_recipe = Unset
    /\ indexed = 0
    /\ vectorstore = <<>>
    /\ session = "open"
    /\ llm_runs = <<>>
    /\ response = NoResponse
    /\ callbacks_inline = FALSE
    /\ TokenIdle
    /\ FnIdle

AttachNext ==
    \/ LogOrchestrator
    \/ LoopIterate
    \/ LoopExhausted
    \/ \E ev \in EvalOutputs : EvalReturns(ev)
    \/ EvalRaises
    \/ \E v \in ReviseOutputs : ReviseReturns(v)
    \/ ReviseRaises
    \/ LogEvaluator
    \/ IndexReturns
    \/ IndexRaises
    \/ Return
    \/ FinishRaises
    \/ FlushRaises

AttachSpec == AttachInit /\ [][AttachNext]_vars

(***************************************************************************)
(* The token accounting of run_pipeline, lines 264-411, for the runs of    *)
(* Runs on one event loop, on the path on which every call returns: Steps  *)
(* A and B call their chain with a LangchainTokenCounter and read the      *)
(* thread-local count; Step C calls the three enrichers without one and    *)
(* logs token_estimate.  A run is suspended while it awaits the model and  *)
(* while the chain awaits its output parser.                               *)
(***************************************************************************)
\* the thread the callback manager runs on_llm_start and on_llm_end on
CallbackThread == IF callbacks_inline THEN "loop" ELSE "worker"

\* LangchainTokenCounter.__init__ (11-16), on the event-loop thread
TokenCounterInit(tl) == IF tl["loop"] = Missing THEN [tl EXCEPT !["loop"] = 0] ELSE tl

\* on_llm_start (18-20)
on_llm_start(tl) == [tl EXCEPT ![CallbackThread] = 0]

\* on_llm_end (22-53): the count is set when the response exposes one
on_llm_end(tl, usage) ==
    IF usage = Missing THEN tl ELSE [tl EXCEPT ![CallbackThread] = usage]

\* get_token_count (55-57) called by run_pipeline, with `or 0`
get_token_count(tl) == IF tl["loop"] = Missing THEN 0 ELSE tl["loop"]

\* reset_token_count (59-61) called by run_pipeline
reset_token_count(tl) == [tl EXCEPT !["loop"] = 0]

SetRun(r, fields) == runs' = [runs EXCEPT ![r] = fields]

pipelineVars ==
    <<max_iter, stage, step, error, calls, audit, token_count, diet_label,
      parsed_recipe, router_result, optimized_recipe, synthesized_recipe,
      enrichVars, loopVars, indexed, vectorstore, session, llm_runs, response, fnVars>>

\* lines 267-269 (366-368): the counter is built, the chain is called, the
\* model is asked
TokenCall(r) ==
    /\ runs[r].stage \in CountedStages
    /\ runs[r].step = "call"
    /\ total_tokens' = on_llm_start(TokenCounterInit(total_tokens))
    /\ SetRun(r, [runs[r] EXCEPT !.step = "llm"])
    /\ UNCHANGED <<callbacks_inline, pipelineVars>>

\* the model answers, with or without a token count in its metadata
TokenLLMEnd(r, exposes) ==
    /\ runs[r].stage \in CountedStages
    /\ runs[r].step = "llm"
    /\ LET usage == IF exposes THEN UsageOf(r, runs[r].stage) ELSE Missing
       IN /\ total_tokens' = on_llm_end(total_tokens, usage)
          /\ SetRun(r, [runs[r] EXCEPT !.step = "parser",
                                       !.exposed[runs[r].stage] = usage])
    /\ UNCHANGED <<callbacks_inline, pipelineVars>>

\* the chain returns: lines 271-272 (370-371)
TokenReturns(r) ==
    /\ runs[r].stage \in CountedStages
    /\ runs[r].step = "parser"
    /\ total_tokens' = reset_token_count(total_tokens)
    /\ SetRun(r, [runs[r] EXCEPT !.step = "log",
                                 !.token_count = get_token_count(total_tokens)])
    /\ UNCHANGED <<callbacks_inline, pipelineVars>>

\* lines 319 and 388: the row of the stage
TokenLog(r) ==
    /\ runs[r].stage \in CountedStages
    /\ runs[r].step = "log"
    /\ SetRun(r, [runs[r] EXCEPT
                    !.rows[runs[r].stage] = runs[r].token_count,
                    !.stage = IF runs[r].stage = "parse" THEN "router" ELSE "enrich",
                    !.step = IF runs[r].stage = "parse" THEN "call" ELSE "dispatch"])
    /\ UNCHANGED <<callbacks_inline, total_tokens, pipelineVars>>

\* lines 397-404: the three enrichers are called, with no callbacks
TokenDispatch(r) ==
    /\ runs[r].stage = "enrich"
    /\ runs[r].step = "dispatch"
    /\ SetRun(r, [runs[r] EXCEPT !.step = "gather",
                                 !.tasks = [t \in Enrichers |-> "inflight"]])
    /\ UNCHANGED <<callbacks_inline, total_tokens, pipelineVars>>

\* the model answers task t: no handler sees the usage of the response
TokenEnrichReturns(r, t) ==
    /\ runs[r].tasks[t] = "inflight"
    /\ SetRun(r, [runs[r] EXCEPT !.tasks[t] = "done"])
    /\ UNCHANGED <<callbacks_inline, total_tokens, pipelineVars>>

\* line 402 returns
TokenGatherReturns(r) ==
    /\ runs[r].stage = "enrich"
    /\ runs[r].step = "gather"
    /\ \A t \in Enrichers : runs[r].tasks[t] = "done"
    /\ SetRun(r, [runs[r] EXCEPT !.step = "log_nutrition"])
    /\ UNCHANGED <<callbacks_inline, total_tokens, pipelineVars>>

\* the rows of the enrichers take the thread-local count
EnricherTokensCounted(estimate, counted) == counted

\* lines 409-411 pass token_estimate as tokens_used
EnricherTokens(estimate, counted) == estimate

\* lines 409, 410, 411: the row of enricher t
TokenLogEnricher(r, t) ==
    /\ runs[r].stage = "enrich"
    /\ runs[r].step = "log_" \o t
    /\ SetRun(r, [runs[r] EXCEPT
                    !.rows[t] = EnricherTokens(token_estimate(r),
                                               get_token_count(total_tokens)),
                    !.stage = IF t = "flavor" THEN "done" ELSE "enrich",
                    !.step = CASE t = "nutrition" -> "log_allergen"
                               [] t = "allergen" -> "log_flavor"
                               [] t = "flavor" -> "done"])
    /\ UNCHANGED <<callbacks_inline, total_tokens, pipelineVars>>

TokenInit ==
    /\ max_iter = 0
    /\ stage = "start"
    /\ step = "store"
    /\ error = "none"
    /\ calls = [c \in Chains |-> 0]
    /\ audit = <<>>
    /\ token_count = "unset"
    /\ parsed_recipe = Unset
    /\ router_result = Unset
    /\ diet_label = "unset"
    /\ enr = [t \in Enrichers |-> [st |-> "new", out |-> Unset]]
    /\ done_order = <<>>
    /\ nutrition_info = UnsetNutr
    /\ allergen_info = Unset
    /\ flavor_profile = Unset
    /\ parsed_recipe_enhanced = Unset
    /\ optimized_recipe = Unset
    /\ synthesized_recipe = Unset
    /\ i = 0
    /\ current_recipe = Unset
    /\ trace = <<>>
    /\ final_recipe = Unset
    /\ indexed = 0
    /\ vectorstore = <<>>
    /\ session = "open"
    /\ llm_runs = <<>>
    /\ response = NoResponse
    /\ callbacks_inline \in BOOLEAN
    /\ TokenIdle
    /\ FnIdle

TokenNext ==
    \/ \E r \in Runs : TokenCall(r)
    \/ \E r \in Runs : \E exposes \in BOOLEAN : TokenLLMEnd(r, exposes)
    \/ \E r \in Runs : TokenReturns(r)
    \/ \E r \in Runs : TokenLog(r)
    \/ \E r \in Runs : TokenDispatch(r)
    \/ \E r \in Runs : \E t \in Enrichers : TokenEnrichReturns(r, t)
    \/ \E r \in Runs : TokenGatherReturns(r)
    \/ \E r \in Runs : \E t \in Enrichers : TokenLogEnricher(r, t)

TokenSpec == TokenInit /\ [][TokenNext]_vars

(***************************************************************************)
(* Structured-output repair on its own: fix_none_values (22-63) applied to *)
(* the text found between the fences, and json.loads of what it returns    *)
(* (lines 282-285).  A text is the sequence of its characters.             *)
(***************************************************************************)
NoneWord == <<"N", "o", "n", "e">>
NullWord == <<"n", "u", "l", "l">>
\* [A-Za-z0-9_], as far as the texts below use it
WordChars == {"N", "o", "n", "e", "u", "l", "i", "t", "s", "a", "b", "x", "1", "2"}
\* \s
Whitespace == {" ", "\n"}

\* s[p..] starts with pat
StartsAt(s, p, pat) ==
    /\ p + Len(pat) - 1 <= Len(s)
    /\ \A k \in 1..Len(pat) : s[p + k - 1] = pat[k]

\* str.replace(old, new): every occurrence, from the left, without overlap
str_replace(s, old, new) ==
    LET RECURSIVE ReplaceFrom(_)
        ReplaceFrom(p) ==
            IF p > Len(s) THEN <<>>
            ELSE IF StartsAt(s, p, old) THEN new \o ReplaceFrom(p + Len(old))
            ELSE <<s[p]>> \o ReplaceFrom(p + 1)
    IN ReplaceFrom(1)

\* \s*: the first position from p on that holds no whitespace
RECURSIVE SkipSpace(_, _)
SkipSpace(s, p) ==
    IF p <= Len(s) /\ s[p] \in Whitespace THEN SkipSpace(s, p + 1) ELSE p

\* re.sub(prefix + r'\s*None([,}\]])', prefix + r' null\1', s)
SubNoneAfter(s, prefix) ==
    LET \* where a match that starts at p ends, or 0
        MatchEnds(p) ==
            IF ~StartsAt(s, p, prefix) THEN 0
            ELSE LET q == SkipSpace(s, p + Len(prefix))
                 IN IF StartsAt(s, q, NoneWord) /\ q + 4 <= Len(s) /\ s[q + 4] \in {",", "}", "]"}
                    THEN q + 4
                    ELSE 0
        RECURSIVE SubFrom(_)
        SubFrom(p) ==
            IF p > Len(s) THEN <<>>
            ELSE IF MatchEnds(p) # 0
                 THEN prefix \o <<" ">> \o NullWord \o <<s[MatchEnds(p)]>>
                      \o SubFrom(MatchEnds(p) + 1)
            ELSE <<s[p]>> \o SubFrom(p + 1)
    IN SubFrom(1)

\* re.sub(r'\bNone\b', 'null', s)
SubNoneWord(s) ==
    LET \* \bNone\b matches at p
        NoneWordAt(p) ==
            /\ StartsAt(s, p, NoneWord)
            /\ (p = 1 \/ s[p - 1] \notin WordChars)
            /\ (p + 4 > Len(s) \/ s[p + 4] \notin WordChars)
        RECURSIVE SubFrom(_)
        SubFrom(p) ==
            IF p > Len(s) THEN <<>>
            ELSE IF NoneWordAt(p) THEN NullWord \o SubFrom(p + 4)
            ELSE <<s[p]>> \o SubFrom(p + 1)
    IN SubFrom(1)

\* lines 38-54: the pairs of the string-based replacements, in order
replacements == <<
    << <<":", " ", "N", "o", "n", "e">>,
       <<":", " ", "n", "u", "l", "l">> >>,
    << <<"=", "N", "o", "n", "e">>,
       <<"=", "n", "u", "l", "l">> >>,
    << <<":", " ", "N", "o", "n", "e", ",">>,
       <<":", " ", "n", "u", "l", "l", ",">> >>,
    << <<"\"", "u", "n", "i", "t", "\"", ":", " ", "N", "o", "n", "e">>,
       <<"\"", "u", "n", "i", "t", "\"", ":", " ", "n", "u", "l", "l">> >>,
    << <<"\"", "n", "o", "t", "e", "s", "\"", ":", " ", "N", "o", "n", "e">>,
       <<"\"", "n", "o", "t", "e", "s", "\"", ":", " ", "n", "u", "l", "l">> >>,
    << <<"N", "o", "n", "e", "}">>,
       <<"n", "u", "l", "l", "}">> >>,
    << <<"N", "o", "n", "e", ",">>,
       <<"n", "u", "l", "l", ",">> >>,
    << <<"N", "o", "n", "e", "]">>,
       <<"n", "u", "l", "l", "]">> >>,
    << <<" ", "N", "o", "n", "e", " ">>,
       <<" ", "n", "u", "l", "l", " ">> >>,
    << <<"\"", ":", " ", "N", "o", "n", "e">>,
       <<"\"", ":", " ", "n", "u", "l", "l">> >>,
    << <<",", " ", "N", "o", "n", "e", ",">>,
       <<",", " ", "n", "u", "l", "l", ",">> >>,
    << <<":", " ", "N", "o", "n", "e", "\n">>,
       <<":", " ", "n", "u", "l", "l", "\n">> >>,
    << <<"\"", ":", "N", "o", "n", "e">>,
       <<"\"", ":", "n", "u", "l", "l">> >>,
    << <<":", " ", "N", "o", "n", "e", "}">>,
       <<":", " ", "n", "u", "l", "l", "}">> >>,
    << <<"\"", ":", "N", "o", "n", "e", "}">>,
       <<"\"", ":", "n", "u", "l", "l", "}">> >> >>


\* fix_none_values (22-63): the three re.sub, the replacements one after the
\* other (56-58), the last re.sub
fix_none_values(json_str) ==
    LET a == SubNoneAfter(json_str, <<"\"", "u", "n", "i", "t", "\"", ":">>)
        b == SubNoneAfter(a, <<"\"", "n", "o", "t", "e", "s", "\"", ":">>)
        c == SubNoneAfter(b, <<":">>)
        RECURSIVE ApplyReplacements(_, _)
        ApplyReplacements(s, k) ==
            IF k > Len(replacements) THEN s
            ELSE ApplyReplacements(str_replace(s, replacements[k][1], replacements[k][2]),
                                   k + 1)
        result == ApplyReplacements(c, 1)
    IN SubNoneWord(result)

(***************************************************************************)
(* json.loads, for texts without escapes: the text is cut into tokens      *)
(* (whitespace between tokens is dropped) and the tokens are matched       *)
(* against the JSON grammar.  The value loaded is stood for by the token   *)
(* sequence: two texts load to equal values when their tokens are equal.   *)
(***************************************************************************)
\* the tokens of a text; <<"?">> stands for a string that is never closed
Tokens(s) ==
    LET RECURSIVE StringEnd(_), WordEnd(_), TokensFrom(_)
        StringEnd(p) ==
            IF p > Len(s) THEN 0 ELSE IF s[p] = "\"" THEN p ELSE StringEnd(p + 1)
        WordEnd(p) ==
            IF p + 1 <= Len(s) /\ s[p + 1] \in WordChars THEN WordEnd(p + 1) ELSE p
        TokensFrom(p) ==
            IF p > Len(s) THEN <<>>
            ELSE IF s[p] \in Whitespace THEN TokensFrom(p + 1)
            ELSE IF s[p] = "\""
                 THEN IF StringEnd(p + 1) = 0 THEN << <<"?">> >>
                      ELSE <<SubSeq(s, p, StringEnd(p + 1))>> \o TokensFrom(StringEnd(p + 1) + 1)
            ELSE IF s[p] \in WordChars
                 THEN <<SubSeq(s, p, WordEnd(p))>> \o TokensFrom(WordEnd(p) + 1)
            ELSE << <<s[p]>> >> \o TokensFrom(p + 1)
    IN TokensFrom(1)

\* the tokens t are one JSON value: a string, a number, null, an array or an
\* object.  Each inner operator returns the position after what it matched
\* at p, or 0.
JsonValue(t) ==
    LET IsString(tok) == tok[1] = "\"" /\ Len(tok) >= 2
        IsNumber(tok) == \A k \in 1..Len(tok) : tok[k] \in {"1", "2"}
        IsScalar(tok) == IsString(tok) \/ IsNumber(tok) \/ tok = NullWord
        RECURSIVE ValueEnds(_), ElementsEnd(_), MembersEnd(_)
        ValueEnds(p) ==
            IF p > Len(t) THEN 0
            ELSE IF IsScalar(t[p]) THEN p + 1
            ELSE IF t[p] = <<"[">>
                 THEN IF p + 1 <= Len(t) /\ t[p + 1] = <<"]">> THEN p + 2
                      ELSE ElementsEnd(p + 1)
            ELSE IF t[p] = <<"{">>
                 THEN IF p + 1 <= Len(t) /\ t[p + 1] = <<"}">> THEN p + 2
                      ELSE MembersEnd(p + 1)
            ELSE 0
        ElementsEnd(p) ==
            LET q == ValueEnds(p)
            IN IF q = 0 \/ q > Len(t) THEN 0
               ELSE IF t[q] = <<",">> THEN ElementsEnd(q + 1)
               ELSE IF t[q] = <<"]">> THEN q + 1
               ELSE 0
        MembersEnd(p) ==
            IF p + 1 > Len(t) \/ ~IsString(t[p]) \/ t[p + 1] # <<":">> THEN 0
            ELSE LET q == ValueEnds(p + 2)
                 IN IF q = 0 \/ q > Len(t) THEN 0
                    ELSE IF t[q] = <<",">> THEN MembersEnd(q + 1)
                    ELSE IF t[q] = <<"}">> THEN q + 1
                    ELSE 0
    IN Len(t) > 0 /\ ValueEnds(1) = Len(t) + 1

\* json.loads(s): the value, or JSONDecodeError (ok is FALSE)
json_loads(s) ==
    IF JsonValue(Tokens(s)) THEN [ok |-> TRUE, value |-> Tokens(s)]
    ELSE [ok |-> FALSE, value |-> <<>>]

\* re.sub(prefix + r'\s*None', prefix + ' null', s), lines 288 and 289
SubNoneOpen(s, prefix) ==
    LET RECURSIVE SubFrom(_)
        SubFrom(p) ==
            IF p > Len(s) THEN <<>>
            ELSE IF /\ StartsAt(s, p, prefix)
                    /\ StartsAt(s, SkipSpace(s, p + Len(prefix)), NoneWord)
                 THEN prefix \o <<" ">> \o NullWord
                      \o SubFrom(SkipSpace(s, p + Len(prefix)) + 4)
            ELSE <<s[p]>> \o SubFrom(p + 1)
    IN SubFrom(1)

\* lines 282-304: fix_none_values, then json.loads after each round of
\* substitutions (288-292, 299-303); the last json.loads may raise
RepairAndLoad(json_str) ==
    LET fixed == fix_none_values(json_str)
        second ==
            str_replace(str_replace(SubNoneOpen(SubNoneOpen(fixed, <<":">>), <<"=">>),
                                    <<"\"", ":", " ", "N", "o", "n", "e">>, <<"\"", ":", " ", "n", "u", "l", "l">>),
                        <<"\"", ":", "N", "o", "n", "e">>, <<"\"", ":", "n", "u", "l", "l">>)
        last ==
            SubNoneWord(str_replace(str_replace(second, <<"\"", "u", "n", "i", "t", "\"", ":", " ", "N", "o", "n", "e">>, <<"\"", "u", "n", "i", "t", "\"", ":", " ", "n", "u", "l", "l">>),
                                    <<"\"", "n", "o", "t", "e", "s", "\"", ":", " ", "N", "o", "n", "e">>, <<"\"", "n", "o", "t", "e", "s", "\"", ":", " ", "n", "u", "l", "l">>))
    IN IF json_loads(fixed).ok THEN json_loads(fixed)
       ELSE IF json_loads(second).ok THEN json_loads(second)
       ELSE json_loads(last)

(***************************************************************************)
(* The texts the repair is applied to: objects and arrays in which one or  *)
(* two values are None, null, a number or a string, some of the strings    *)
(* holding the word None.                                                  *)
(***************************************************************************)
Quoted(chars) == <<"\"">> \o chars \o <<"\"">>

RepairTexts ==
    LET Keys == { Quoted(<<"u", "n", "i", "t">>), Quoted(<<"n", "o", "t", "e", "s">>),
                  Quoted(<<"a">>) }
        Values == { NoneWord, NullWord, <<"1">>, Quoted(<<"x">>), Quoted(NoneWord),
                    Quoted(<<"a", " ">> \o NoneWord \o <<" ", "b">>) }
        Gaps == { <<>>, <<" ">> }
    IN { <<"{">> \o k \o <<":">> \o g \o v \o <<"}">> :
             k \in Keys, g \in Gaps, v \in Values }
       \cup { <<"{">> \o k \o <<":">> \o g \o v \o <<",", " ">> \o Quoted(<<"b">>)
                  \o <<":", " ", "1", "}">> :
             k \in Keys, g \in Gaps, v \in Values }
       \cup { <<"[">> \o v \o <<",", " ">> \o w \o <<"]">> : v \in Values, w \in Values }
       \cup { <<"[">> \o v \o <<"]">> : v \in Values }

\* every variable but fn_arg, fn_result, fn_done
restVars ==
    <<max_iter, stage, step, error, calls, audit, token_count, diet_label,
      parsed_recipe, router_result, optimized_recipe, synthesized_recipe,
      enrichVars, loopVars, indexed, vectorstore, session, llm_runs, response,
      tokenVars>>

\* no run is in progress
PipelineIdle ==
    /\ max_iter = 0
    /\ stage = "start"
    /\ step = "store"
    /\ error = "none"
    /\ calls = [c \in Chains |-> 0]
    /\ audit = <<>>
    /\ token_count = "unset"
    /\ parsed_recipe = Unset
    /\ router_result = Unset
    /\ diet_label = "unset"
    /\ enr = [t \in Enrichers |-> [st |-> "new", out |-> Unset]]
    /\ done_order = <<>>
    /\ nutrition_info = UnsetNutr
    /\ allergen_info = Unset
    /\ flavor_profile = Unset
    /\ parsed_recipe_enhanced = Unset
    /\ optimized_recipe = Unset
    /\ synthesized_recipe = Unset
    /\ i = 0
    /\ current_recipe = Unset
    /\ trace = <<>>
    /\ final_recipe = Unset
    /\ indexed = 0
    /\ vectorstore = <<>>
    /\ session = "open"
    /\ llm_runs = <<>>
    /\ response = NoResponse
    /\ callbacks_inline = FALSE
    /\ TokenIdle

RepairInit ==
    /\ PipelineIdle
    /\ fn_arg \in RepairTexts
    /\ fn_result = [fixed_json_str |-> <<>>, raw_data |-> [ok |-> FALSE, value |-> <<>>]]
    /\ fn_done = FALSE

\* lines 282-304 on the text fn_arg
RepairFenced ==
    /\ ~fn_done
    /\ fn_result' = [fixed_json_str |-> fix_none_values(fn_arg),
                     raw_data |-> RepairAndLoad(fn_arg)]
    /\ fn_done' = TRUE
    /\ UNCHANGED <<fn_arg, restVars>>

RepairNext == RepairFenced

RepairSpec == RepairInit /\ [][RepairNext]_vars

(***************************************************************************)
(* filter_extra_fields on dictionaries with their values: the structure    *)
(* loaded on the repair path of Parse (306) and of Synthesize (489).       *)
(***************************************************************************)
\* the dictionaries json.loads can give over five keys: three of the Parse
\* list, one only of the Synthesize list, one of neither
Dicts ==
    LET FilterKeys == {"title", "nutrition", "servings", "improvements", "extra"}
        FilterValues == {"v", "w"}
    IN UNION { [K -> FilterValues] : K \in SUBSET FilterKeys }

\* the complement of the filter: the items whose key is outside the list
FilterKeepsRest(json_data, expected_keys) ==
    [k \in DOMAIN json_data \ expected_keys |-> json_data[k]]
\* line 68: {k: v for k, v in json_data.items() if k in expected_keys}
FilterItems(json_data, expected_keys) ==
    [k \in DOMAIN json_data \cap expected_keys |-> json_data[k]]

\* the allow-list each stage passes on its repair path (306, 489)
ExpectedFields(s) ==
    IF s = "parse" THEN recipe_content_fields ELSE optimized_recipe_fields

FilterInit ==
    /\ PipelineIdle
    /\ fn_arg \in [stage : {"parse", "orchestrator"}, raw_data : Dicts]
    /\ fn_result = <<>>
    /\ fn_done = FALSE

\* lines 306 and 489
FilterRepaired ==
    /\ ~fn_done
    /\ fn_result' = FilterItems(fn_arg.raw_data, ExpectedFields(fn_arg.stage))
    /\ fn_done' = TRUE
    /\ UNCHANGED <<fn_arg, restVars>>

FilterNext == FilterRepaired

FilterSpec == FilterInit /\ [][FilterNext]_vars

(***************************************************************************)
(* normalize_recipe on the servings field.  A recipe is stood for by       *)
(* whether it has "ingredients" and by its servings: absent, null, an      *)
(* integer or a text.                                                      *)
(***************************************************************************)
MaxText == 3
DecimalDigits == {"0", "1", "2"}
Servings(kind, int, text) == [kind |-> kind, int |-> int, text |-> text]
AbsentServings == Servings("absent", 0, <<>>)
\* absent, null, two integers, and every text of up to MaxText characters
ServingsValues ==
    LET ServingsChars == {"0", "1", "2", " ", "a"}
        ServingsTexts == UNION { [1..n -> ServingsChars] : n \in 0..MaxText }
    IN { AbsentServings, Servings("none", 0, <<>>), Servings("int", 0, <<>>),
         Servings("int", 12, <<>>) }
         \cup { Servings("str", 0, t) : t \in ServingsTexts }

DigitValue(c) == CASE c = "0" -> 0 [] c = "1" -> 1 [] c = "2" -> 2

\* what group(1) of a match would be if only one digit were taken
FirstDigit(s) ==
    IF Len(s) > 0 /\ s[1] \in DecimalDigits THEN <<s[1]>> ELSE <<>>
\* re.match(r'^(\d+)', s): group(1), the longest run of digits that starts
\* the text; the empty sequence when there is no match
RECURSIVE LeadingDigits(_)
LeadingDigits(s) ==
    IF Len(s) > 0 /\ s[1] \in DecimalDigits
    THEN <<s[1]>> \o LeadingDigits(Tail(s))
    ELSE <<>>

\* int(digits)
RECURSIVE IntOf(_)
IntOf(digits) ==
    IF Len(digits) = 0 THEN 0
    ELSE 10 * IntOf(SubSeq(digits, 1, Len(digits) - 1)) + DigitValue(digits[Len(digits)])

\* lines 529-530 and 545-554
NormalizeServings(recipe_data) ==
    IF ~recipe_data.has_ingredients THEN recipe_data
    ELSE IF recipe_data.servings.kind # "str" THEN recipe_data
    ELSE IF LeadingDigits(recipe_data.servings.text) # <<>>
         THEN [recipe_data EXCEPT
                  !.servings = Servings("int", IntOf(LeadingDigits(recipe_data.servings.text)), <<>>)]
    ELSE [recipe_data EXCEPT !.servings = AbsentServings]

ServingsInit ==
    /\ PipelineIdle
    /\ fn_arg \in [has_ingredients : BOOLEAN, servings : ServingsValues]
    /\ fn_result = [has_ingredients |-> FALSE, servings |-> AbsentServings]
    /\ fn_done = FALSE

\* lines 569-570: normalize_recipe(recipe_data)
NormalizeCall ==
    /\ ~fn_done
    /\ fn_result' = NormalizeServings(fn_arg)
    /\ fn_done' = TRUE
    /\ UNCHANGED <<fn_arg, restVars>>

ServingsNext == NormalizeCall

ServingsSpec == ServingsInit /\ [][ServingsNext]_vars

(***************************************************************************)
(* Properties.                                                             *)
(***************************************************************************)
\* evaluator_loop has returned (its caller is about to log the result)
LoopDone == stage = "evaluator" /\ step = "log"

\* the evaluator calls of the trace, in order
EvalEntries == SelectSeq(trace, LAMBDA e : e.call = "evaluator")
\* the evaluator calls that have returned a score
Scored(e) == e.call = "evaluator" /\ e.score # Pending

\* a RecipeContent object: present, with the fields the model requires
ArtifactPresent(a) == IsDict(a) /\ RequiredFields \subseteq a.keys

\* C1: run_pipeline either returns a response whose original and optimized
\* artifacts are both present, or raises; no response is built in any other
\* case, and none with one of the two missing.
C1_ReturnsBothOrRaises ==
    /\ stage = "returned" =>
          /\ ArtifactPresent(response.original)
          /\ ArtifactPresent(response.optimized)
          /\ error = "none"
    /\ stage = "failed" => (response = NoResponse /\ error # "none")
    /\ stage \notin {"returned", "failed"} => (response = NoResponse /\ error = "none")

C1_Witness ==
    /\ stage = "returned"
    /\ response.original.tag = "muffins"
    /\ response.optimized.tag = "rev1"

\* C2: evaluator_loop issues at most MAX_ITER evaluator calls and at most
\* MAX_ITER optimizer calls, and completes at most MAX_ITER cycles.
C2_AtMostMaxIterCycles ==
    /\ calls["evaluator"] <= max_iter
    /\ calls["optimizer"] <= max_iter
    /\ i <= max_iter

C2_Witness ==
    /\ LoopDone
    /\ max_iter = MaxIter
    /\ calls["evaluator"] = max_iter
    /\ calls["optimizer"] = max_iter

\* C3: unless a call raises, evaluator_loop eventually returns, whatever
\* the scores are.
C3_LoopTerminates == <>(LoopDone \/ stage = "failed")

C3_Witness ==
    /\ LoopDone
    /\ max_iter = MaxIter
    /\ Len(EvalEntries) = max_iter
    /\ \A k \in 1..Len(EvalEntries) : EvalEntries[k].score < PassScore

\* C4: an evaluation of 8 or more ends the loop with the candidate that was
\* evaluated and is the last call; an evaluation below 8 is followed by the
\* optimizer call, an optimizer call by nothing but an evaluator call of its
\* output, and the loop does not return after a revision while an iteration
\* is left.
C4_LoopTransitions ==
    /\ \A k \in 1..Len(trace) :
          /\ (Scored(trace[k]) /\ trace[k].score >= PassScore) =>
                /\ k = Len(trace)
                /\ LoopDone
                /\ final_recipe = trace[k].arg
          /\ (Scored(trace[k]) /\ trace[k].score < PassScore) =>
                /\ k < Len(trace)
                /\ trace[k + 1].call = "optimizer"
                /\ trace[k + 1].arg = trace[k].arg
          /\ (trace[k].call = "optimizer" /\ k < Len(trace)) =>
                /\ trace[k + 1].call = "evaluator"
                /\ trace[k + 1].arg = trace[k].out
    /\ (LoopDone /\ trace # <<>> /\ trace[Len(trace)].call = "optimizer") => i = max_iter

C4_Witness ==
    /\ LoopDone
    /\ Len(trace) = 3
    /\ trace[1].score = 7
    /\ trace[3].score = 8
    /\ final_recipe = trace[2].out
    /\ final_recipe # optimized_recipe

\* C5: when all MAX_ITER evaluations (MAX_ITER >= 1) score below 8, the loop
\* returns the output of the last optimizer call.
C5_ExhaustedReturnsLastRevision ==
    ( /\ LoopDone
      /\ max_iter >= 1
      /\ Len(EvalEntries) = max_iter
      /\ \A k \in 1..Len(EvalEntries) : EvalEntries[k].score < PassScore )
    => ( /\ trace[Len(trace)].call = "optimizer"
         /\ final_recipe = trace[Len(trace)].out )

C5_Witness ==
    /\ LoopDone
    /\ max_iter = 2
    /\ Len(trace) = 4
    /\ trace[1].score = 7
    /\ trace[3].score = 7
    /\ trace[2].out.tag = "rev1"
    /\ trace[4].out.tag = "rev2"
    /\ final_recipe.tag = "rev2"

\* C6: with MAX_ITER = 0 the loop issues no evaluator and no optimizer call,
\* does not raise, and returns the candidate it was given.
C6_ZeroIterations ==
    max_iter = 0 =>
        /\ calls["evaluator"] = 0
        /\ calls["optimizer"] = 0
        /\ trace = <<>>
        /\ stage # "failed"
        /\ LoopDone => final_recipe = optimized_recipe

C6_Witness ==
    /\ max_iter = 0
    /\ LoopDone
    /\ final_recipe = optimized_recipe
    /\ final_recipe.tag = "synth"

\* C7: if the k-th evaluation is the first that scores 8 or more, the loop
\* has returned the k-th evaluated candidate after exactly k evaluator calls
\* and k-1 optimizer calls.
C7_FirstPassEndsLoop ==
    \A k \in 1..Len(EvalEntries) :
        ( /\ Scored(EvalEntries[k])
          /\ EvalEntries[k].score >= PassScore
          /\ \A j \in 1..(k - 1) : EvalEntries[j].score < PassScore )
        => ( /\ LoopDone
             /\ calls["evaluator"] = k
             /\ calls["optimizer"] = k - 1
             /\ final_recipe = EvalEntries[k].arg )

C7_Witness ==
    /\ LoopDone
    /\ max_iter = 3
    /\ Len(EvalEntries) = 3
    /\ EvalEntries[1].score = 7
    /\ EvalEntries[2].score = 7
    /\ EvalEntries[3].score = 9
    /\ calls["optimizer"] = 2
    /\ final_recipe = EvalEntries[3].arg

\* C8: each of the parse, router and orchestrator chains is called at most
\* twice in a run: the initial call and one retry.
C8_AtMostOneRetry ==
    \A s \in StructuredStages : calls[s] <= 2

\* C9: when the parse stage has failed, run_pipeline has raised and no
\* other chain was called, nothing was logged and nothing was indexed.
C9_ParseFailureFailsRun ==
    error = "parse" =>
        /\ stage = "failed"
        /\ \A c \in Chains \ {"parse"} : calls[c] = 0
        /\ audit = <<>>
        /\ indexed = 0
        /\ response = NoResponse

C9_Witness ==
    /\ stage = "failed"
    /\ error = "parse"
    /\ calls["parse"] >= 2

\* C10: once one of the three enrichment calls has failed, the await of the
\* fan-out can only raise: no result of the fan-out is ever bound, the
\* enhanced recipe is never built and the orchestrator chain is never called.
C10_EnrichFailureFailsFanOut ==
    (\E t \in Enrichers : enr[t].st = "failed") =>
        /\ \/ (stage = "enrich" /\ step = "gather")
           \/ (stage = "failed" /\ error = "enrich")
        /\ nutrition_info = UnsetNutr
        /\ allergen_info = Unset
        /\ flavor_profile = Unset
        /\ parsed_recipe_enhanced = Unset
        /\ calls["orchestrator"] = 0

C10_Witness ==
    /\ stage = "failed"
    /\ error = "enrich"
    /\ enr["flavor"].st = "failed"
    /\ enr["nutrition"].st = "done"
    /\ enr["allergen"].st = "done"

\* the model calls that have been issued and have neither returned nor raised
InFlight ==
    {s \in StructuredStages : stage = s /\ step \in {"await"} \cup RetrySteps}
    \cup {t \in Enrichers : enr[t].st = "inflight"}
    \cup (IF stage = "evaluator" /\ step = "await_eval" THEN {"evaluator"} ELSE {})
    \cup (IF stage = "evaluator" /\ step = "await_revise" THEN {"optimizer"} ELSE {})

\* the place of a chain's stage in Parse, Classify, Enrich, Synthesize, Refine
StageRank(c) == CASE c = "parse" -> 1
                  [] c = "router" -> 2
                  [] c \in Enrichers -> 3
                  [] c = "orchestrator" -> 4
                  [] c \in {"evaluator", "optimizer"} -> 5

\* all model calls issued so far
TotalCalls ==
    calls["parse"] + calls["router"] + calls["nutrition"] + calls["allergen"]
    + calls["flavor"] + calls["orchestrator"] + calls["evaluator"] + calls["optimizer"]

\* C11: the orchestrator (Synthesize) call is issued only when all three
\* enrichment calls have returned, and no enrichment call has ended before
\* all three have been issued.
C11_SynthesizeAfterFanOut ==
    /\ calls["orchestrator"] > 0 => \A t \in Enrichers : enr[t].st = "done"
    /\ (\E t \in Enrichers : enr[t].st \in {"done", "failed"})
           => \A t \in Enrichers : calls[t] = 1 /\ enr[t].st # "new"

C11_Witness ==
    /\ stage = "orchestrator"
    /\ step = "await"
    /\ calls["orchestrator"] = 1
    /\ \A t \in Enrichers : enr[t].st = "done" /\ calls[t] = 1

\* C12: whatever the order in which the three enrichment calls end, once
\* gather has returned nutrition_info is the output of the nutrition call,
\* allergen_info that of the allergen call and flavor_profile that of the
\* flavor call, and the nutrition of parsed_recipe_enhanced is the output of
\* the nutrition call.
C12_BundleKeyedByKind ==
    /\ nutrition_info # UnsetNutr
           => /\ nutrition_info = enr["nutrition"].out
              /\ allergen_info = enr["allergen"].out
              /\ flavor_profile = enr["flavor"].out
    /\ parsed_recipe_enhanced # Unset
           => parsed_recipe_enhanced.nutrition = enr["nutrition"].out

C12_Witness ==
    /\ stage = "enrich"
    /\ step = "log_nutrition"
    /\ done_order = <<"flavor", "allergen", "nutrition">>
    /\ nutrition_info = Nutr("dict", 2)
    /\ allergen_info.tag = "dairy"
    /\ flavor_profile.tag = "sweet"

\* C13: a chain is called only when every chain of an earlier stage has been
\* called and none of them is in flight, and two calls are in flight together
\* only when both are enrichment calls.
C13_StagesInOrder ==
    /\ \A c \in Chains : calls[c] > 0 =>
           \A d \in Chains : StageRank(d) < StageRank(c) /\ d # "optimizer"
                                 => calls[d] > 0 /\ d \notin InFlight
    /\ calls["optimizer"] > 0 => calls["evaluator"] > 0
    /\ Cardinality(InFlight) > 1 => InFlight \subseteq Enrichers

C13_Witness ==
    /\ stage = "evaluator"
    /\ step = "await_revise"
    /\ InFlight = {"optimizer"}
    /\ \A c \in Chains : calls[c] > 0

\* C14: a run whose model stages all succeeded and whose final artifacts are
\* valid does not fail because the call of store_in_vectordb raised.
C14_IndexFailureDoesNotFailRun ==
    ~(/\ stage = "failed"
      /\ error = "index"
      /\ IndexCanStore(final_recipe)
      /\ FinishError = "none")

\* C15: store_in_vectordb is called at most once, exactly once in a run that
\* returns, only when evaluator_loop has returned, and the optimized document
\* it stores is final_recipe.
C15_IndexedOnceWithFinal ==
    /\ indexed <= 1
    /\ Len(vectorstore) = indexed
    /\ stage = "returned" => indexed = 1
    /\ indexed = 1 => /\ final_recipe # Unset
                      /\ stage \notin {"evaluator", "index"}
                      /\ vectorstore[1].optimized = final_recipe
                      /\ vectorstore[1].original = parsed_recipe_enhanced

C15_Witness ==
    /\ stage = "returned"
    /\ indexed = 1
    /\ optimized_recipe.tag = "synth"
    /\ vectorstore[1].optimized.tag = "rev1"

\* C16: when a run has returned, the audit trail holds as many rows as model
\* calls were made in the run.
C16_OneRecordPerCall == stage = "returned" => Len(audit) = TotalCalls

\* C17: when a run has failed and the request has ended, the rows log_llm_run
\* wrote before the failure are in the audit store.
C17_AuditSurvivesFailure ==
    (stage = "failed" /\ session # "open") => llm_runs = audit

\* C18: no run fails because the flush of a log_llm_run row failed.
C18_AuditWriteCannotFailRun ==
    ~(stage = "failed" /\ error = "db" /\ calls["parse"] > 0)
\* the usage metadata of every call other than call c of run r
OtherUsages(r, c) ==
    { UsageOf(q, d) : q \in Runs, d \in TokenChains } \ { UsageOf(r, c) }

\* the count a run records for a counted stage when no other run exists
Alone(r, s) ==
    IF callbacks_inline /\ runs[r].exposed[s] # Missing THEN runs[r].exposed[s] ELSE 0

C20_TokenCountAsIfAlone ==
    \A r \in Runs : \A s \in CountedStages :
        runs[r].rows[s] # Missing => runs[r].rows[s] = Alone(r, s)
\* C21: a run fails on an exception of the evaluator chain or of the optimizer
\* chain only when the chain was called again after the exception, that is
\* more often than once per cycle begun.
C21_RefineFailureRetried ==
    /\ (stage = "failed" /\ error = "evaluator") => calls["evaluator"] > i + 1
    /\ (stage = "failed" /\ error = "optimizer") => calls["optimizer"] > i + 1

\* C22: when the repair is applied to a text that is already valid JSON, the
\* value it loads equals the value loaded from the text directly, and fixing
\* the fixed text again changes nothing.
C22_RepairNoOpOnValid ==
    (fn_done /\ json_loads(fn_arg).ok) =>
        /\ fn_result.raw_data = json_loads(fn_arg)
        /\ fix_none_values(fn_result.fixed_json_str) = fn_result.fixed_json_str

\* the tokens of a text with every None token (not the word inside a string)
\* replaced by null
NoneAsNull(t) == [k \in 1..Len(t) |-> IF t[k] = NoneWord THEN NullWord ELSE t[k]]
\* the text is valid JSON except that None stands where null is expected
InformalNull(s) ==
    LET t == Tokens(s)
    IN /\ \E k \in 1..Len(t) : t[k] = NoneWord
       /\ JsonValue(NoneAsNull(t))

\* C23: a text that is valid JSON except for None tokens in value position is
\* repaired to a text that loads, and the value loaded is that of the text with
\* each None token replaced by null, every other value as it was.
C23_NoneBecomesNull ==
    (fn_done /\ InformalNull(fn_arg)) =>
        fn_result.raw_data = [ok |-> TRUE, value |-> NoneAsNull(Tokens(fn_arg))]

\* C24: the structure the repair path of Parse or of Synthesize gives holds
\* exactly the keys of the loaded structure that are in the stage's field
\* list, each with the value it had; so no emitted field of the list is missing
\* and every other key is dropped.
C24_FilterKeepsExpected ==
    fn_done =>
        LET allow == IF fn_arg.stage = "parse"
                     THEN {"title", "ingredients", "steps", "nutrition",
                           "cooking_time", "servings"}
                     ELSE {"title", "ingredients", "steps", "nutrition",
                           "cooking_time", "servings", "improvements", "diet_label"}
        IN /\ \A k \in DOMAIN fn_arg.raw_data \cap allow :
                  k \in DOMAIN fn_result /\ fn_result[k] = fn_arg.raw_data[k]
           /\ \A k \in DOMAIN fn_result : k \in DOMAIN fn_arg.raw_data \cap allow
C24_Witness ==
    /\ fn_done
    /\ fn_arg.stage = "parse"
    /\ DOMAIN fn_arg.raw_data = {"title", "nutrition", "improvements", "extra"}
    /\ fn_arg.raw_data["title"] # fn_arg.raw_data["nutrition"]
    /\ DOMAIN fn_result = {"title", "nutrition"}

\* the number a run of digits denotes: each digit times its power of ten
RECURSIVE PlaceSum(_, _)
PlaceSum(digits, k) ==
    IF k > Len(digits) THEN 0
    ELSE DigitValue(digits[k]) * 10 ^ (Len(digits) - k) + PlaceSum(digits, k + 1)
\* the servings of the result are the normalized servings of the argument
ServingsNormalized ==
    LET before == fn_arg.servings
        after == fn_result.servings
        text == before.text
    IN /\ before.kind \in {"int", "none", "absent"} => after = before
       /\ (before.kind = "str" /\ (text = <<>> \/ text[1] \notin {"0", "1", "2"})) =>
              after.kind = "absent"
       /\ \A n \in 1..Len(text) :
              (/\ before.kind = "str"
               /\ \A k \in 1..n : text[k] \in {"0", "1", "2"}
               /\ (n = Len(text) \/ text[n + 1] \notin {"0", "1", "2"})) =>
                  after = [kind |-> "int", int |-> PlaceSum(SubSeq(text, 1, n), 1),
                           text |-> <<>>]

C26_DeltaFromFinal ==
    (/\ stage = "returned"
     /\ parsed_recipe_enhanced.nutrition.kind = "dict"
     /\ final_recipe.nutrition.kind = "dict") =>
        \A f \in NutritionFields :
            response.macros_delta[f] =
                (IF f \in final_recipe.nutrition.absent THEN 0
                 ELSE final_recipe.nutrition[f])
                - (IF f \in parsed_recipe_enhanced.nutrition.absent THEN 0
                   ELSE parsed_recipe_enhanced.nutrition[f])
\* original sugar_g 24.3, Synthesize candidate 24.3, loop result 12.8: -11.5
C26_Witness ==
    /\ stage = "returned"
    /\ parsed_recipe_enhanced.nutrition.sugar_g = 243
    /\ optimized_recipe.nutrition.sugar_g = 243
    /\ final_recipe.nutrition.sugar_g = 128
    /\ final_recipe.nutrition.kind = "dict"
    /\ response.macros_delta["sugar_g"] = 0 - 115
    /\ response.macros_delta["calories"] = 0 - 10000
    /\ response.macros_delta["protein_g"] = 100

\* C27: in every result returned, the original and the optimized recipe both
\* carry a nutrition object.
C27_NutritionInResult ==
    stage = "returned" =>
        /\ response.original.nutrition.kind = "dict"
        /\ response.optimized.nutrition.kind = "dict"

\* C28: from the moment the label is taken, through every later stage and in
\* the result returned, diet_label is the diet_label of the Classify output of
\* the run, or "balanced" when that output has no such field.
C28_DietLabelFromRouter ==
    LET label == IF "diet_label" \in router_result.keys
                 THEN router_result.tag ELSE "balanced"
    IN /\ diet_label # "unset" => diet_label = label
       /\ stage = "returned" => response.diet_label = label
C28_Witness ==
    /\ stage = "returned"
    /\ router_result.tag = "vegan"
    /\ final_recipe.tag = "rev1"
    /\ response.diet_label = "vegan"

\* C29: the Synthesize output, the loop's current candidate, every recipe
\* passed to the evaluator, every recipe indexed and the optimized recipe of a
\* returned result have "ingredients" and "steps".
C29_CandidateStructured ==
    LET Structured(v) == {"ingredients", "steps"} \subseteq v.keys
    IN /\ optimized_recipe # Unset => Structured(optimized_recipe)
       /\ current_recipe # Unset => Structured(current_recipe)
       /\ \A k \in 1..Len(trace) :
              trace[k].call = "evaluator" => Structured(trace[k].arg)
       /\ \A k \in 1..Len(vectorstore) : Structured(vectorstore[k].optimized)
       /\ stage = "returned" => Structured(response.optimized)

\* C30: the candidate returned by Synthesize is left as it was returned by
\* every later step: the value run_pipeline holds as optimized_recipe is the
\* value the Synthesize stage produced.
C30_SynthesizedUnchanged ==
    synthesized_recipe # Unset => optimized_recipe = synthesized_recipe

\* C31: in the step in which the run is cancelled and in every step after it,
\* no model call is issued: neither a call of a further stage nor a retry of
\* the interrupted one.
C31_NoCallAfterCancel ==
    [][error' = "CancelledError" => calls' = calls]_vars
C31_Witness ==
    /\ stage = "cancelled"
    /\ error = "CancelledError"
    /\ calls["parse"] = 1
    /\ calls["router"] = 1
    /\ calls["nutrition"] = 0

\* C32: the audit trail is at every moment a prefix of parse, router,
\* nutrition, allergen, flavor, orchestrator, evaluator, and holds all seven
\* when the run has returned; the row of a sequential stage is there before a
\* call of the next stage is issued, and a row of an enrichment call is there
\* only when all three enrichment calls have completed.
C32_SevenRecordsInOrder ==
    LET order == <<"parse", "router", "nutrition", "allergen", "flavor",
                   "orchestrator", "evaluator">>
        Logged(n) == Len(audit) >= n
    IN /\ Len(audit) <= 7
       /\ \A k \in 1..Len(audit) : k <= 7 => audit[k].step_name = order[k]
       /\ stage = "returned" => Len(audit) = 7
       /\ calls["router"] > 0 => Logged(1)
       /\ (\E t \in Enrichers : calls[t] > 0) => Logged(2)
       /\ calls["orchestrator"] > 0 => Logged(5)
       /\ (calls["evaluator"] > 0 \/ calls["optimizer"] > 0) => Logged(6)
       /\ Logged(3) => \A t \in Enrichers : enr[t].st = "done"
C32_Witness ==
    /\ stage = "returned"
    /\ Len(audit) = 7
    /\ calls["parse"] = 3
    /\ calls["orchestrator"] = 2
    /\ calls["evaluator"] = 1
    /\ calls["optimizer"] = 1

\* C33: when evaluator_loop has returned, the optimizer was called once less
\* than the evaluator if some evaluation scored 8 or more, and as often as the
\* evaluator, MAX_ITER times, if none did; in that second case with MAX_ITER
\* >= 1 the value returned is the output of the last optimizer call, issued
\* after the last evaluator call, so no evaluator call has had it as argument
\* since it was produced.
C33_ReviserCallsAndUnevaluatedResult ==
    LoopDone =>
        LET passed == \E k \in 1..Len(trace) :
                          trace[k].call = "evaluator" /\ trace[k].score >= 8
            optimizerEntries == SelectSeq(trace, LAMBDA e : e.call = "optimizer")
        IN /\ Len(EvalEntries) = calls["evaluator"]
           /\ Len(optimizerEntries) = calls["optimizer"]
           /\ passed => calls["optimizer"] = calls["evaluator"] - 1
           /\ ~passed => /\ calls["optimizer"] = calls["evaluator"]
                         /\ calls["evaluator"] = max_iter
           /\ (~passed /\ max_iter >= 1) =>
                  /\ trace[Len(trace)].call = "optimizer"
                  /\ trace[Len(trace) - 1].call = "evaluator"
                  /\ final_recipe = trace[Len(trace)].out
C33_Witness ==
    /\ LoopDone
    /\ max_iter = 2
    /\ calls["evaluator"] = 2
    /\ calls["optimizer"] = 2
    /\ trace[3].arg.tag = "rev1"
    /\ trace[4].out.tag = "rev1"
    /\ final_recipe.tag = "rev1"

\* C34: once one of the three enrichment calls has failed, the audit trail
\* holds the parse row and the router row and nothing else, in every later
\* state of the run, whichever of the other calls completed; and the run
\* fails at the fan-out only when an enrichment call has failed.
C34_NoEnrichmentRowsOnFailure ==
    /\ (\E t \in Enrichers : enr[t].st = "failed") =>
           /\ Len(audit) = 2
           /\ audit[1].step_name = "parse"
           /\ audit[2].step_name = "router"
    /\ (stage = "failed" /\ error = "enrich") =>
           \E t \in Enrichers : enr[t].st = "failed"
C34_Witness ==
    /\ stage = "failed"
    /\ error = "enrich"
    /\ enr["nutrition"].st = "done"
    /\ enr["allergen"].st = "done"
    /\ enr["flavor"].st = "failed"
    /\ Len(audit) = 2

\* C35: when normalization and validation are reached the pair of the run is
\* already in the vector store, so a run that fails validation has indexed
\* its original and its final recipe as a run that returns has.
C35_IndexedBeforeValidation ==
    /\ stage \in {"finish", "returned"} => indexed = 1
    /\ (stage = "failed" /\ error = "ValidationError") =>
           /\ indexed = 1
           /\ vectorstore = <<[original |-> parsed_recipe_enhanced,
                               optimized |-> final_recipe]>>
           /\ response = NoResponse
C35_Witness ==
    /\ stage = "failed"
    /\ error = "ValidationError"
    /\ indexed = 1
    /\ vectorstore[1].optimized.tag = "partial"
    /\ response = NoResponse

\* C36: a Parse result that is no dict does not end the run where the
\* enhanced recipe is built: once the flavor row is flushed the run enters
\* Step D whatever the Parse result is, and the enhanced recipe is then the first element of a list whose
\* first element is a dict, or the placeholder titled "Parsed Recipe" with
\* the three required fields, each with the nutrition estimate added; it is
\* the original from then on.
C36_NonObjectParseSubstituted ==
    /\ [](parsed_recipe_enhanced # Unset =>
            /\ IsDict(parsed_recipe_enhanced)
            /\ parsed_recipe_enhanced.nutrition = nutrition_info
            /\ parsed_recipe.kind = "list_of_dict" =>
                   /\ parsed_recipe_enhanced.keys
                          = parsed_recipe.keys \cup {"nutrition"}
                   /\ parsed_recipe_enhanced.tag = parsed_recipe.tag
            /\ parsed_recipe.kind \notin {"dict", "list_of_dict"} =>
                   /\ parsed_recipe_enhanced.keys
                          = RequiredFields \cup {"nutrition"}
                   /\ parsed_recipe_enhanced.tag = "Parsed Recipe")
    /\ []((stage = "enrich" /\ step = "log_flavor") => ENABLED LogFlavor)
    /\ [][(/\ stage = "enrich"
           /\ step = "log_flavor"
           /\ ~IsDict(parsed_recipe)
           /\ error' # "db")
            => /\ stage' = "orchestrator"
               /\ step' = "call"
               /\ error' = error
               /\ parsed_recipe_enhanced' # Unset]_vars
C36_Witness ==
    /\ parsed_recipe = JsonNull
    /\ calls["orchestrator"] >= 1
    /\ parsed_recipe_enhanced.tag = "Parsed Recipe"
    /\ parsed_recipe_enhanced.keys = {"title", "ingredients", "steps", "nutrition"}
    /\ stage = "returned"
    /\ response.original.tag = "Parsed Recipe"

\* C37: a Step D candidate without a nutrition key has the nutrition estimate,
\* which is the original's nutrition, when evaluator_loop is entered, so the
\* first call of the loop already sees it; when the loop returns that
\* candidate and the estimate is an object of numbers (or is empty or null),
\* every field of the delta is 0; and when the nutrition of the original or
\* of the final recipe is missing, null or empty, calculate_macro_delta
\* raises neither AttributeError nor TypeError and every field of the delta
\* is 0.
C37_AttachedNutritionAndZeroDelta ==
    /\ (current_recipe # Unset /\ "nutrition" \notin synthesized_recipe.keys) =>
           /\ "nutrition" \in optimized_recipe.keys
           /\ optimized_recipe.nutrition = parsed_recipe_enhanced.nutrition
           /\ trace # <<>> => trace[1].arg = optimized_recipe
    /\ (/\ stage \in {"finish", "returned"}
        /\ "nutrition" \notin synthesized_recipe.keys
        /\ final_recipe = optimized_recipe
        /\ nutrition_info.kind \in {"dict", "empty", "none"}
        /\ nutrition_info.nulls = {}) =>
           /\ ~MacroDeltaRaises(parsed_recipe_enhanced, final_recipe)
           /\ ~MacroDeltaTypeError(parsed_recipe_enhanced, final_recipe)
           /\ \A f \in NutritionFields :
                  calculate_macro_delta(parsed_recipe_enhanced, final_recipe)[f] = 0
           /\ stage = "returned" => \A f \in NutritionFields : response.macros_delta[f] = 0
    /\ (/\ final_recipe # Unset
        /\ IsDict(final_recipe)
        /\ \/ NutrFalsy(parsed_recipe_enhanced.nutrition)
           \/ NutrFalsy(final_recipe.nutrition)) =>
           /\ IsDict(allergen_info) => error \notin {"AttributeError", "TypeError"}
           /\ ~MacroDeltaRaises(parsed_recipe_enhanced, final_recipe)
           /\ ~MacroDeltaTypeError(parsed_recipe_enhanced, final_recipe)
           /\ \A f \in NutritionFields :
                  calculate_macro_delta(parsed_recipe_enhanced, final_recipe)[f] = 0
           /\ stage = "returned" => \A f \in NutritionFields : response.macros_delta[f] = 0
C37_Witness ==
    /\ stage = "returned"
    /\ synthesized_recipe.tag = "synth"
    /\ "nutrition" \notin synthesized_recipe.keys
    /\ final_recipe = optimized_recipe
    /\ final_recipe.nutrition = Nutr("dict", 2)
    /\ parsed_recipe_enhanced.nutrition = Nutr("dict", 2)
    /\ Len(trace) = 1
    /\ \A f \in NutritionFields : response.macros_delta[f] = 0
====
